---- MODULE Spec2Model ----
(***************************************************************************)
(* Git synchronisation of lifedb: the native LifeDBGit module (clone,      *)
(* pull = fetch + hard reset, push = stage + commit + push) and the        *)
(* JavaScript entry points that drive it (commitAndSync, syncRepo,         *)
(* syncToGit, performSync, the sync screen's handleSync), plus the two     *)
(* repo-root resolvers.                                                    *)
(*                                                                         *)
(* One repository root is modelled.  A revision is the position of its     *)
(* commit in `commits`; a tree is one abstract content value; the working  *)
(* tree and the index are content values too.  Every await of a primitive  *)
(* is a scheduling point: a step runs the primitive a caller awaits and    *)
(* the caller's code up to its next await; pull is two steps, the hard     *)
(* reset being the second, since files are written while it runs.          *)
(***************************************************************************)
EXTENDS Integers, Sequences, FiniteSets, TLC

\* ------------------------------------------------------------------ bounds
MaxRev == 3
MaxDepth == 3
MaxRepos == 2
MaxChallenges == 3
MaxCalls == 3

\* --------------------------------------------------------------- constants
NoRev == 0
\* The entries an undo history keeps.
HistoryLimit == 100
Branches == {"main", "master", "dev"}
\* A tree, the index and the working tree are each one content value.
Contents == {"base", "edit"}
Procs == {1, 2}

\* The words the JavaScript classifiers look for in an error text.  An error
\* text is modelled by the set of these words it contains: the fixed part of
\* every message of the native module contains none of them, so the set is
\* that of the embedded libgit2 / SwiftGit2 error description.
Keywords == {"network", "connect", "conflict", "merge", "auth", "credential"}
\* The error descriptions tried: no keyword, a network one, and one that holds
\* both 'conflict' and 'auth'.
LibErrTexts == {w \in SUBSET Keywords : w \in {{}, {"connect"}, {"conflict", "auth"}}}

VARIABLES
  repo,          \* the local repository at the root
  origin,        \* the remote: branch -> revision (NoRev: no such branch)
  originDefault, \* the branch the remote's HEAD names (checked out by clone)
  commits,       \* the commit objects: revision -> [parent, tree]
  proc,          \* per caller: the entry point running and its locals
  nat,           \* per caller: the native call in flight and its return
  last,          \* the entry point of the call before, when it succeeded
                 \* undisturbed and nothing has changed since; else "none"
  rpath, rrepos, rres, \* resolver: path, directories holding .git, results
  auth,          \* the remote operation (fetch or push) that is authenticating
  github,        \* REST sync: local and GitHub files, syncWithGitHub's position
  history,       \* the stored DiffHistory of one file
  histCall       \* the last undo-history call: its result and what it found

vars == <<repo, origin, originDefault, commits, proc, nat, last,
          rpath, rrepos, rres, auth, github, history, histCall>>
gitVars == <<repo, origin, originDefault, commits>>
resolverVars == <<rpath, rrepos, rres>>
serviceVars == <<github, history, histCall>>

\* ------------------------------------------------------------- git objects
TreeOf(cs, r) == IF r = NoRev THEN "base" ELSE cs[r].tree

RECURSIVE IsAncestor(_, _, _)
\* a is b or an ancestor of b (git_graph_descendant_of, used by the push
\* negotiation to refuse a non-fast-forward update).
IsAncestor(cs, a, b) ==
  IF b = NoRev THEN FALSE
  ELSE IF a = b THEN TRUE
  ELSE IsAncestor(cs, a, cs[b].parent)

\* repo.status(): entries for HEAD-vs-index and index-vs-workdir differences.
StatusEntries(r, cs) ==
  (IF r.index # TreeOf(cs, r.head) THEN {"staged"} ELSE {}) \cup
  (IF r.wt # r.index THEN {"unstaged"} ELSE {})

NoRepo == [cloned |-> FALSE, branch |-> "main", head |-> NoRev, index |-> "base",
           wt |-> "base", tracking |-> [b \in Branches |-> NoRev]]

\* What a repo-root resolver answers: null, or the root directory.
Null == [kind |-> "null", root |-> <<>>]
Root(d) == [kind |-> "root", root |-> d]
\* No path has been resolved since the repositories last changed.
NotResolved == [asked |-> FALSE, gs |-> Null, ops |-> Null, threw |-> FALSE]

\* ------------------------------------------------------------ return values
Ok(text) == [kind |-> "value", success |-> TRUE, text |-> text, words |-> {}]
Err(text, words) == [kind |-> "value", success |-> FALSE, text |-> text, words |-> words]
Thrown(v) == [kind |-> "throw", success |-> FALSE, text |-> v, words |-> {}]
NoRet == [kind |-> "none", success |-> FALSE, text |-> "", words |-> {}]

\* ------------------------------------------------------------- credentials
\* GitCredentialContext as pull and push create it: `var used: Bool = false`.
GitCredentialContext == [used |-> FALSE]

\* credentialCallback without the `if context.used` test.
CredentialCallbackNoGuard(context, allowed, created) ==
  IF allowed
  THEN IF created
       THEN [code |-> "GIT_OK", context |-> [context EXCEPT !.used = TRUE], supplied |-> TRUE]
       ELSE [code |-> "GIT_ERROR", context |-> [context EXCEPT !.used = TRUE], supplied |-> FALSE]
  ELSE [code |-> "GIT_PASSTHROUGH", context |-> [context EXCEPT !.used = TRUE], supplied |-> FALSE]

\* credentialCallback (the payload is always set by pull and push): a context
\* that has been used answers GIT_EAUTH; otherwise the context is marked used
\* and, when userpass-plaintext is among the allowed types, the credential is
\* created from username and token (created: whether
\* git_credential_userpass_plaintext_new succeeds); else GIT_PASSTHROUGH.
CredentialCallback(context, allowed, created) ==
  IF context.used
  THEN [code |-> "GIT_EAUTH", context |-> context, supplied |-> FALSE]
  ELSE IF allowed
  THEN IF created
       THEN [code |-> "GIT_OK", context |-> [context EXCEPT !.used = TRUE], supplied |-> TRUE]
       ELSE [code |-> "GIT_ERROR", context |-> [context EXCEPT !.used = TRUE], supplied |-> FALSE]
  ELSE [code |-> "GIT_PASSTHROUGH", context |-> [context EXCEPT !.used = TRUE], supplied |-> FALSE]

\* No remote operation is authenticating.  Of one that is: op, "fetch" or
\* "push"; context, its credential context; challenges, the authentication
\* challenges it has passed to the callback; supplied, how many of them got
\* the username and token; code, what the callback returned last.
NoRemoteOp == [op |-> "none", context |-> GitCredentialContext,
               challenges |-> 0, supplied |-> 0, code |-> "none"]

\* What a remote operation that has been challenged leaves to the primitive
\* that runs it: the primitive did not throw, it got as far as the remote
\* operation (reached), and an operation whose last challenge was not
\* answered with a credential has failed (authFailed).
RemoteOpAgrees(op, threw, reached, beforeTransfer, authFailed) ==
  \/ auth.op = "none"
  \/ /\ auth.op = op /\ ~threw
     /\ \/ reached /\ (auth.code \notin {"none", "GIT_OK"} => authFailed)
        \/ beforeTransfer /\ auth.code = "none"

\* ------------------------------------------------------- native primitives
\* What the environment can do to one run of a primitive.
PushFaults == {"none", "open", "stage", "commit", "commitNothing", "lookup", "head"}
PushTransports == {"ok", "rejected", "error"}
PullFaults == {"none", "open", "head", "noRemote", "lookup", "commitLookup"}
\* git_remote_fetch: it succeeds, fails in the network layer, or fails with
\* GIT_EAUTH (credentials rejected: the second challenge of the operation is
\* answered GIT_EAUTH by credentialCallback).
FetchOutcomes == {"ok", "network", "auth"}
ResetOutcomes == {"ok", "failEarly", "failLate"}
RollbackOutcomes == {"ok", "lookupFails", "resetFails"}

\* The message push returns on success.
PushMessage(madeCommit) == IF madeCommit THEN "Pushed successfully" ELSE "Nothing to push"

\* git_remote_push of refs/heads/<branch>:refs/heads/<branch>: a
\* non-fast-forward update is an error; an update the server refuses is
\* reported to pushUpdateReferenceCallback only, which returns GIT_OK.
PushRefused(r, o, cs) ==
  o[r.branch] # NoRev /\ ~IsAncestor(cs, o[r.branch], r.head)

\* HasChangesToCommit finding changes whatever the status holds.
HasChangesToCommitAlways(r, cs, statusOk) == TRUE

\* push's `hasChanges`: false, and true only when repo.status() succeeds with
\* entries (r is the repository after `repo.add(path: ".")`).
HasChangesToCommit(r, cs, statusOk) == statusOk /\ StatusEntries(r, cs) # {}

\* LifeDBGit.push: open, stage all, commit when status is not empty, push.
PushStep(r, o, cs, fault, statusOk, transport, w) ==
  IF ~r.cloned \/ fault = "open"
  THEN [repo |-> r, origin |-> o, commits |-> cs, ret |-> Err("Failed to open repository", w)]
  ELSE IF fault = "stage"
  THEN [repo |-> r, origin |-> o, commits |-> cs, ret |-> Err("Failed to stage files", w)]
  ELSE
    LET staged == [r EXCEPT !.index = r.wt]
        hasChanges == HasChangesToCommit(staged, cs, statusOk)
        made == hasChanges /\ fault \notin {"commit", "commitNothing"}
        cs2 == IF made THEN Append(cs, [parent |-> r.head, tree |-> staged.index]) ELSE cs
        r2 == IF made THEN [staged EXCEPT !.head = Len(cs2)] ELSE staged
    IN
    IF hasChanges /\ fault = "commit"
    THEN [repo |-> staged, origin |-> o, commits |-> cs, ret |-> Err("Failed to commit", w)]
    ELSE IF fault = "lookup"
    THEN [repo |-> r2, origin |-> o, commits |-> cs2, ret |-> Err("Failed to lookup remote", w)]
    ELSE IF fault = "head"
    THEN [repo |-> r2, origin |-> o, commits |-> cs2, ret |-> Err("Failed to get HEAD", w)]
    ELSE IF transport = "error"
    THEN [repo |-> r2, origin |-> o, commits |-> cs2, ret |-> Err("Push failed", w)]
    ELSE IF PushRefused(r2, o, cs2)
    THEN [repo |-> r2, origin |-> o, commits |-> cs2, ret |-> Err("Push failed", {})]
    ELSE IF transport = "rejected"
    THEN [repo |-> r2, origin |-> o, commits |-> cs2, ret |-> Ok(PushMessage(made))]
    ELSE [repo |-> [r2 EXCEPT !.tracking[r2.branch] = r2.head],
          origin |-> [o EXCEPT ![r2.branch] = r2.head],
          commits |-> cs2, ret |-> Ok(PushMessage(made))]

\* Fetched moving the local branch to the remote revision as well.
FetchedMovingHead(r, o) ==
  [r EXCEPT !.tracking = [b \in Branches |-> IF o[b] # NoRev THEN o[b] ELSE r.tracking[b]],
            !.head = IF o[r.branch] # NoRev THEN o[r.branch] ELSE r.head]

\* git_remote_fetch: the remote-tracking refs take the remote's branch heads.
Fetched(r, o) ==
  [r EXCEPT !.tracking = [b \in Branches |-> IF o[b] # NoRev THEN o[b] ELSE r.tracking[b]]]

\* PickRemoteOid with the order of the two lookups exchanged.
PickRemoteOidMasterFirst(tracking) ==
  IF tracking["master"] # NoRev THEN tracking["master"] ELSE tracking["main"]

\* pull's choice of the remote revision: origin/main, else origin/master,
\* else nil.
PickRemoteOid(tracking) ==
  IF tracking["main"] # NoRev THEN tracking["main"] ELSE tracking["master"]

\* AlreadyAtRemote never finding the two revisions equal.
AlreadyAtRemoteNever(localOid, remoteOid) == FALSE

\* pull's comparison `localOidStr == remoteOidStr`.
AlreadyAtRemote(localOid, remoteOid) == localOid = remoteOid

\* pull's guard before the reset: `if case .success(let entries) = status,
\* !entries.isEmpty`; a status that fails does not stop the pull.
HasUncommittedChanges(r, cs, statusOk) == statusOk /\ StatusEntries(r, cs) # {}

\* LifeDBGit.pull up to the reset: open, HEAD, remote, fetch, pick the remote
\* revision, compare, refuse on uncommitted changes, look the commit up.
\* next = "reset" hands over to PullResetStep.
PullFetchStep(r, o, cs, fault, fetch, statusOk, w) ==
  LET stop(rr, ret) == [repo |-> rr, ret |-> ret, next |-> "return",
                        orig |-> NoRev, target |-> NoRev, guard |-> FALSE,
                        fetchFailed |-> "none"]
  IN
  IF ~r.cloned \/ fault = "open" THEN stop(r, Err("Failed to open repository", w))
  ELSE IF fault = "head" THEN stop(r, Err("Failed to get current HEAD", {}))
  ELSE IF fault = "noRemote" THEN stop(r, Err("No remote found", {}))
  ELSE IF fault = "lookup" THEN stop(r, Err("Failed to lookup remote", w))
  ELSE IF fetch # "ok" THEN [stop(r, Err("Fetch failed", w)) EXCEPT !.fetchFailed = fetch]
  ELSE
    LET f == Fetched(r, o)
        remoteOid == PickRemoteOid(f.tracking)
        dirtyDiff == StatusEntries(f, cs) # {} /\ remoteOid # f.head
    IN
    IF remoteOid = NoRev
    THEN stop(f, Err("Could not find origin/main or origin/master", {}))
    ELSE IF AlreadyAtRemote(f.head, remoteOid) THEN stop(f, Ok("Already up to date"))
    ELSE IF HasUncommittedChanges(f, cs, statusOk)
    THEN [stop(f, Err("You have local uncommitted changes. Commit or stash them first.", {}))
            EXCEPT !.guard = dirtyDiff]
    ELSE IF fault = "commitLookup"
    THEN [stop(f, Err("Failed to lookup remote commit", w)) EXCEPT !.guard = dirtyDiff]
    ELSE [repo |-> f, ret |-> NoRet, next |-> "reset",
          orig |-> f.head, target |-> remoteOid, guard |-> dirtyDiff,
          fetchFailed |-> "none"]

\* What a git_reset --hard that fails leaves behind: it checks the tree out
\* first, then moves HEAD, then rewrites the index, and can fail at each.
AfterFailedReset(r, cs, target, outcome, wrote) ==
  IF outcome = "failEarly"
  THEN [r EXCEPT !.wt = IF wrote THEN TreeOf(cs, target) ELSE r.wt]
  ELSE [r EXCEPT !.wt = TreeOf(cs, target), !.head = target]

\* HardReset as a mixed reset: HEAD and the index move, the files stay.
HardResetMixed(r, cs, target) ==
  [r EXCEPT !.head = target, !.index = TreeOf(cs, target)]

\* git_reset(repo, commit, GIT_RESET_HARD) that succeeds.
HardReset(r, cs, target) ==
  [r EXCEPT !.head = target, !.index = TreeOf(cs, target), !.wt = TreeOf(cs, target)]

\* LifeDBGit.pull from the reset on: hard reset to the remote commit; when it
\* fails, look the original commit up and, if found, reset to it (the result
\* of that reset is not read), and report "Rolled back." in every case.
PullResetStep(r, cs, orig, target, outcome, wrote, rollback, w) ==
  IF outcome = "ok"
  THEN [repo |-> HardReset(r, cs, target), ret |-> Ok("Updated")]
  ELSE
    LET left == AfterFailedReset(r, cs, target, outcome, wrote) IN
    [repo |-> IF rollback = "ok" THEN HardReset(left, cs, orig) ELSE left,
     ret |-> Err("Reset failed. Rolled back.", w)]

\* LifeDBGit.clone: Repository.clone checks the remote's default branch out.
CloneStep(r, o, od, cs, ok, w) ==
  IF ~ok \/ r.cloned
  THEN [repo |-> r, ret |-> Err("clone failed", w)]
  ELSE [repo |-> [cloned |-> TRUE, branch |-> od, head |-> o[od],
                  index |-> TreeOf(cs, o[od]), wt |-> TreeOf(cs, o[od]),
                  tracking |-> o],
        ret |-> Ok("Repository cloned successfully")]

\* ---------------------------------------------------- JavaScript callers
\* What a collaborator can throw: an Error whose text holds no keyword, an
\* Error whose text holds 'network', or null/undefined (`throw undefined`,
\* `Promise.reject()`).
ThrownValues == {"Error", "NetworkError", "nullish"}
ThrownWords(v) == IF v = "NetworkError" THEN {"network"} ELSE {}

\* Outcomes of the repo-root resolver (or the selected-repository lookup),
\* of the credential provider and of the log callback.
ResolverOutcomes == {"found", "notFound"} \cup ThrownValues
CredentialOutcomes == {"present", "absent"} \cup ThrownValues
CallbackOutcomes == {"ok"} \cup ThrownValues

NoResult == [kind |-> "pending", success |-> FALSE, reason |-> ""]
Result(success, reason) == [kind |-> "value", success |-> success, reason |-> reason]
\* The promise of the call rejects: an exception left the function.
Rejected == [kind |-> "rejected", success |-> FALSE, reason |-> ""]

\* The primitive in flight: stage "reset" once pull has passed its checks,
\* with pull's locals originalHeadOid and targetRemoteOid; ret, the value the
\* last primitive of a finished call returned (a caller that awaits its next
\* primitive has consumed the value); guard, whether the working tree had
\* uncommitted changes and the remote revision differed from HEAD when pull
\* compared; fetchFailed, how the fetch failed when the pull that ended a
\* finished call returned 'Fetch failed'.
IdleNat == [stage |-> "none", ret |-> NoRet, orig |-> NoRev, target |-> NoRev,
            guard |-> FALSE, fetchFailed |-> "none"]

\* nPush, nPull: primitives invoked in this call; pushFailed: pushes that
\* returned failure; pullOk: the pull returned success; failedAt: the await
\* at which clone, pull or push last returned failure; disturbed: the
\* environment interfered with this call (a primitive hit a fault, a
\* collaborator threw or gave nothing, a file or the remote changed);
\* remoteMoved: another writer pushed to the remote during this call;
\* start: the repository and the remote as they were when the call began,
\* kept for as long as nothing has interfered with the call; onLog: the
\* messages syncRepo has passed to its log callback, in the order of the
\* calls; log: the entries of performSync's logs array; noCredential: the
\* credential provider was asked and gave no username or no token.
NoStart == [repo |-> NoRepo, origin |-> [b \in Branches |-> NoRev]]

IdleProc == [entry |-> "none", pc |-> "idle", result |-> NoResult,
             nPush |-> 0, nPull |-> 0, pushFailed |-> 0, pullOk |-> FALSE,
             failedAt |-> "none", disturbed |-> FALSE, remoteMoved |-> FALSE,
             start |-> NoStart, onLog |-> <<>>, log |-> <<>>, noCredential |-> FALSE]

PushLabels == {"cas_push1", "cas_push2", "sr_push", "stg_push1", "stg_push2",
               "ps_push", "hs_push", "nat_push", "co_push"}
PullLabels == {"cas_pull", "sr_pull", "stg_pull", "ps_pull", "hs_pull", "nat_pull"}
CloneLabels == {"ps_clone", "hs_clone", "nat_clone"}
IsRepositoryLabels == {"ps_isrepo", "hs_isrepo"}

InFlight(p) == proc[p].pc \notin {"idle", "done"}

Started(entry) == [IdleProc EXCEPT !.entry = entry]

\* The caller awaits the primitive of `label`.
Await(pr, label) ==
  [pr EXCEPT !.pc = label,
             !.nPush = IF label \in PushLabels THEN @ + 1 ELSE @,
             !.nPull = IF label \in PullLabels THEN @ + 1 ELSE @]

\* The call resolves with `result` (or rejects).
Finished(pr, result) == [pr EXCEPT !.pc = "done", !.result = result]

Failed(ret) == ret.kind = "value" /\ ~ret.success

\* The credential provider has answered `cred` to the call.
Asked(pr, cred) == [pr EXCEPT !.noCredential = cred = "absent"]

\* What the caller has seen of its pushes and its pull.
Seen(pr, ret) ==
  [pr EXCEPT !.pushFailed = IF pr.pc \in PushLabels /\ Failed(ret) THEN @ + 1 ELSE @,
             !.pullOk = @ \/ (pr.pc \in PullLabels /\ ret.kind = "value" /\ ret.success),
             !.failedAt = IF pr.pc \notin IsRepositoryLabels /\ Failed(ret)
                          THEN pr.pc ELSE @]

\* ClassifyPull testing auth/credential before the other groups.
ClassifyPullAuthFirst(words) ==
  IF "auth" \in words \/ "credential" \in words THEN "auth_failed"
  ELSE IF "network" \in words \/ "connect" \in words THEN "no_network"
  ELSE IF "conflict" \in words \/ "merge" \in words THEN "conflict"
  ELSE "unknown"

\* commitAndSync's reading of a failed pull: network/connect, then
\* conflict/merge, then auth/credential, else unknown.
ClassifyPull(words) ==
  IF "network" \in words \/ "connect" \in words THEN "no_network"
  ELSE IF "conflict" \in words \/ "merge" \in words THEN "conflict"
  ELSE IF "auth" \in words \/ "credential" \in words THEN "auth_failed"
  ELSE "unknown"

\* commitAndSync's reading of a failed final push.
ClassifyPush(words) ==
  IF "network" \in words \/ "connect" \in words THEN "no_network" ELSE "unknown"

\* The catch blocks that use String(error), which never throws.
CatchString(v) ==
  Result(FALSE, IF "network" \in ThrownWords(v) THEN "no_network" ELSE "unknown")

\* The catch blocks that read error.message, which throws a TypeError when
\* the value caught is null or undefined.
CatchMessage(v) == IF v = "nullish" THEN Rejected ELSE Result(FALSE, "")

\* ------------------------------------------------------------ commitAndSync
\* CAS_Begin reporting a path outside every repository as a failure.
CAS_BeginUntrackedFails(root, cred, isRepo) ==
  LET pr == Started("commitAndSync") IN
  IF root \in ThrownValues THEN Finished(pr, CatchString(root))
  ELSE IF root = "notFound" \/ ~isRepo THEN Finished(pr, Result(FALSE, "unknown"))
  ELSE IF cred \in ThrownValues THEN Finished(pr, CatchString(cred))
  ELSE IF cred = "absent" THEN Finished(pr, Result(FALSE, "auth_failed"))
  ELSE Await(pr, "cas_push1")

CAS_Begin(root, cred, isRepo) ==
  LET pr == Started("commitAndSync") IN
  IF root \in ThrownValues THEN Finished(pr, CatchString(root))
  ELSE IF root = "notFound" \/ ~isRepo THEN Finished(pr, Result(TRUE, "success"))
  ELSE IF cred \in ThrownValues THEN Finished(pr, CatchString(cred))
  ELSE IF cred = "absent" THEN Finished(Asked(pr, cred), Result(FALSE, "auth_failed"))
  ELSE Await(pr, "cas_push1")

\* ---------------------------------------------------------------- commitOnly
\* commitOnly (commitIfInRepo): its result is `committed`, false with or
\* without an error; a path outside every repository is not committed.
CO_Begin(root, cred, isRepo) ==
  LET pr == Started("commitOnly") IN
  IF root \in ThrownValues THEN Finished(pr, Result(FALSE, ""))
  ELSE IF root = "notFound" \/ ~isRepo THEN Finished(pr, Result(FALSE, ""))
  ELSE IF cred \in ThrownValues THEN Finished(pr, Result(FALSE, ""))
  ELSE IF cred = "absent" THEN Finished(Asked(pr, cred), Result(FALSE, ""))
  ELSE Await(pr, "co_push")

\* committed is the success of the push.
CO_AfterPush(pr, ret) ==
  IF ret.kind = "throw" THEN Finished(pr, Result(FALSE, ""))
  ELSE Finished(pr, Result(ret.success, ""))

\* Step 1: the result of the first push is logged and not read.
CAS_AfterPush1(pr, ret) ==
  IF ret.kind = "throw" THEN Finished(pr, CatchString(ret.text))
  ELSE Await(pr, "cas_pull")

\* Step 2: a failed pull ends the call with a classified failure.
CAS_AfterPull(pr, ret) ==
  IF ret.kind = "throw" THEN Finished(pr, CatchString(ret.text))
  ELSE IF ~ret.success THEN Finished(pr, Result(FALSE, ClassifyPull(ret.words)))
  ELSE Await(pr, "cas_push2")

\* Step 3: the final push decides the result.
CAS_AfterPush2(pr, ret) ==
  IF ret.kind = "throw" THEN Finished(pr, CatchString(ret.text))
  ELSE IF ~ret.success THEN Finished(pr, Result(FALSE, ClassifyPush(ret.words)))
  ELSE Finished(pr, Result(TRUE, "success"))

\* ----------------------------------------------------------------- syncRepo
\* syncRepo calls log(message, status); the call is recorded whether the
\* callback returns or throws.
Logged(pr, message) == [pr EXCEPT !.onLog = Append(@, message)]

\* cb: what the log callback does when this part of syncRepo first calls it.
SR_Begin(root, cred, isRepo, cb) ==
  LET pr == Started("syncRepo") IN
  IF root \in ThrownValues THEN Finished(pr, Result(FALSE, ""))
  ELSE IF root = "notFound" \/ ~isRepo THEN Finished(pr, Result(FALSE, ""))
  ELSE IF cred \in ThrownValues THEN Finished(pr, Result(FALSE, ""))
  ELSE IF cred = "absent" THEN Finished(Asked(pr, cred), Result(FALSE, ""))
  ELSE IF cb # "ok"
  THEN Finished(Logged(pr, "Fetching and updating from remote..."), Result(FALSE, ""))
  ELSE Await(Logged(pr, "Fetching and updating from remote..."), "sr_pull")

\* SR_AfterPull ending the call once the pull has succeeded, without the push.
SR_AfterPullNoPush(pr, ret, cb) ==
  IF ret.kind = "throw" \/ cb # "ok" \/ ~ret.success THEN Finished(pr, Result(FALSE, ""))
  ELSE Finished(pr, Result(TRUE, ""))

\* The pull's message is logged, or its failure, which ends the call.
SR_AfterPull(pr, ret, cb) ==
  IF ret.kind = "throw" THEN Finished(pr, Result(FALSE, ""))
  ELSE IF ~ret.success THEN Finished(Logged(pr, "Pull failed"), Result(FALSE, ""))
  ELSE IF cb # "ok" THEN Finished(Logged(pr, ret.text), Result(FALSE, ""))
  ELSE Await(Logged(pr, ret.text), "sr_push")

\* SR_AfterPush reporting completion before the push.
SR_AfterPushCompletedFirst(pr, ret, cb) ==
  IF ret.kind = "throw" THEN Finished(pr, Result(FALSE, ""))
  ELSE IF ~ret.success THEN Finished(Logged(pr, "Push failed"), Result(FALSE, ""))
  ELSE IF cb # "ok" THEN Finished(Logged(pr, "Sync completed successfully"), Result(FALSE, ""))
  ELSE IF ret.text # "Nothing to push"
  THEN Finished(Logged(Logged(pr, "Sync completed successfully"), "Pushed local changes"),
                Result(TRUE, ""))
  ELSE Finished(Logged(pr, "Sync completed successfully"), Result(TRUE, ""))

\* A push that committed is logged, a failed push is logged and ends the
\* call; 'Sync completed successfully' is the last message.
SR_AfterPush(pr, ret, cb) ==
  IF ret.kind = "throw" THEN Finished(pr, Result(FALSE, ""))
  ELSE IF ~ret.success THEN Finished(Logged(pr, "Push failed"), Result(FALSE, ""))
  ELSE IF ret.text # "Nothing to push"
  THEN IF cb # "ok" THEN Finished(Logged(pr, "Pushed local changes"), Result(FALSE, ""))
       ELSE Finished(Logged(Logged(pr, "Pushed local changes"), "Sync completed successfully"),
                     Result(TRUE, ""))
  ELSE IF cb # "ok" THEN Finished(Logged(pr, "Sync completed successfully"), Result(FALSE, ""))
  ELSE Finished(Logged(pr, "Sync completed successfully"), Result(TRUE, ""))

\* ---------------------------------------------------------------- syncToGit
STG_Begin(cred) ==
  LET pr == Started("syncToGit") IN
  IF cred \in ThrownValues THEN Finished(pr, CatchMessage(cred))
  ELSE IF cred = "absent" THEN Finished(Asked(pr, cred), Result(FALSE, ""))
  ELSE Await(pr, "stg_push1")

\* STG_AfterPush1 going on to the pull whatever the push returned.
STG_AfterPush1AlwaysPull(pr, ret) ==
  IF ret.kind = "throw" THEN Finished(pr, CatchMessage(ret.text))
  ELSE Await(pr, "stg_pull")

\* Step 1: a push that succeeds ends the call; one that fails leads to pull.
STG_AfterPush1(pr, ret) ==
  IF ret.kind = "throw" THEN Finished(pr, CatchMessage(ret.text))
  ELSE IF ~ret.success THEN Await(pr, "stg_pull")
  ELSE Finished(pr, Result(TRUE, ""))

STG_AfterPull(pr, ret) ==
  IF ret.kind = "throw" THEN Finished(pr, CatchMessage(ret.text))
  ELSE IF ~ret.success THEN Finished(pr, Result(FALSE, ""))
  ELSE Await(pr, "stg_push2")

\* STG_AfterPush2 retrying for as long as the push fails.
STG_AfterPush2Again(pr, ret) ==
  IF ret.kind = "throw" THEN Finished(pr, CatchMessage(ret.text))
  ELSE IF ~ret.success THEN Await(pr, "stg_push2")
  ELSE Finished(pr, Result(TRUE, ""))

\* Step 3: the retry is the last push, whatever it returns.
STG_AfterPush2(pr, ret) ==
  IF ret.kind = "throw" THEN Finished(pr, CatchMessage(ret.text))
  ELSE IF ~ret.success THEN Finished(pr, Result(FALSE, ""))
  ELSE Finished(pr, Result(TRUE, ""))

\* -------------------------------------------------------------- performSync
\* A SyncLog entry (without its timestamp); success is "true", "false", or
\* "undefined" when addLog is called without it.
SyncLog(operation, message, success) ==
  [success |-> success, message |-> message, operation |-> operation]

\* addLog replacing the last entry when it has the same operation.
AddLogDeduplicated(pr, operation, message, success) ==
  IF Len(pr.log) > 0 /\ pr.log[Len(pr.log)].operation = operation
  THEN [pr EXCEPT !.log[Len(pr.log)] = SyncLog(operation, message, success)]
  ELSE [pr EXCEPT !.log = Append(@, SyncLog(operation, message, success))]

\* performSync's addLog: logs.push({ timestamp, operation, message, success }).
AddLog(pr, operation, message, success) ==
  [pr EXCEPT !.log = Append(@, SyncLog(operation, message, success))]

\* performSync's catch block: error.message is read first (a TypeError for
\* null or undefined), then the error is logged and returned.
PS_Catch(pr, v) ==
  IF v = "nullish" THEN Finished(pr, CatchMessage(v))
  ELSE Finished(AddLog(pr, "error", "Unexpected error", "false"), CatchMessage(v))

\* sel: the selected-repository lookup (AsyncStorage).
PS_Begin(sel, cred) ==
  LET pr == Started("performSync") IN
  IF cred \in ThrownValues THEN PS_Catch(pr, cred)
  ELSE IF sel \in ThrownValues THEN PS_Catch(Asked(pr, cred), sel)
  ELSE IF cred = "absent"
  THEN Finished(AddLog(Asked(pr, cred), "error", "Not authenticated with GitHub", "false"),
                Result(FALSE, ""))
  ELSE IF sel = "notFound"
  THEN Finished(AddLog(pr, "error", "No repository selected", "false"), Result(FALSE, ""))
  ELSE Await(pr, "ps_isrepo")

PS_AfterIsRepository(pr, ret) ==
  IF ret.kind = "throw" THEN PS_Catch(pr, ret.text)
  ELSE IF ~ret.success
  THEN Await(AddLog(pr, "info", "Repository not cloned. Cloning", "undefined"), "ps_clone")
  ELSE Await(AddLog(pr, "fetch", "Fetching and updating from remote...", "undefined"), "ps_pull")

\* PS_AfterClone going on to the pull once the clone has succeeded.
PS_AfterCloneThenPull(pr, ret) ==
  IF ret.kind = "throw" THEN PS_Catch(pr, ret.text)
  ELSE IF ~ret.success
  THEN Finished(AddLog(pr, "error", "Clone failed", "false"), Result(FALSE, ""))
  ELSE Await(AddLog(pr, "info", "Repository cloned successfully", "true"), "ps_pull")

PS_AfterClone(pr, ret) ==
  IF ret.kind = "throw" THEN PS_Catch(pr, ret.text)
  ELSE IF ~ret.success
  THEN Finished(AddLog(pr, "error", "Clone failed", "false"), Result(FALSE, ""))
  ELSE Finished(AddLog(pr, "info", "Repository cloned successfully", "true"), Result(TRUE, ""))

PS_AfterPull(pr, ret) ==
  IF ret.kind = "throw" THEN PS_Catch(pr, ret.text)
  ELSE IF ~ret.success
  THEN Finished(AddLog(pr, "error", "Pull failed", "false"), Result(FALSE, ""))
  ELSE Await(AddLog(pr, "merge", ret.text, "true"), "ps_push")

\* PS_AfterPush returning success without the closing entry.
PS_AfterPushNoCompletion(pr, ret) ==
  IF ret.kind = "throw" THEN PS_Catch(pr, ret.text)
  ELSE IF ~ret.success
  THEN Finished(AddLog(pr, "error", "Push failed", "false"), Result(FALSE, ""))
  ELSE LET pushed == IF ret.text # "Nothing to push"
                     THEN AddLog(pr, "push", ret.text, "true") ELSE pr
       IN Finished(pushed, Result(TRUE, ""))

\* The push is logged only when it pushed something.
PS_AfterPush(pr, ret) ==
  IF ret.kind = "throw" THEN PS_Catch(pr, ret.text)
  ELSE IF ~ret.success
  THEN Finished(AddLog(pr, "error", "Push failed", "false"), Result(FALSE, ""))
  ELSE LET pushed == IF ret.text # "Nothing to push"
                     THEN AddLog(pr, "push", ret.text, "true") ELSE pr
       IN Finished(AddLog(pushed, "info", "Sync completed successfully", "true"),
                   Result(TRUE, ""))

\* --------------------------------------------- the sync screen's handleSync
\* handleSync returns nothing: its outcome is success when it reaches
\* 'Sync complete!' and records the sync time, failure when it stops before.
\* The token is read before the try block.
HS_Begin(sel, cred) ==
  LET pr == Started("handleSync") IN
  IF sel # "found" THEN Finished(pr, Result(FALSE, ""))
  ELSE IF cred \in ThrownValues THEN Finished(pr, Rejected)
  ELSE IF cred = "absent" THEN Finished(Asked(pr, cred), Result(FALSE, ""))
  ELSE Await(pr, "hs_isrepo")

HS_AfterIsRepository(pr, ret) ==
  IF ret.kind = "throw" THEN Finished(pr, CatchMessage(ret.text))
  ELSE IF ~ret.success THEN Await(pr, "hs_clone")
  ELSE Await(pr, "hs_pull")

HS_AfterClone(pr, ret) ==
  IF ret.kind = "throw" THEN Finished(pr, CatchMessage(ret.text))
  ELSE Finished(pr, Result(ret.success, ""))

\* A failed pull is reported and the push follows all the same.
HS_AfterPull(pr, ret) ==
  IF ret.kind = "throw" THEN Finished(pr, CatchMessage(ret.text))
  ELSE Await(pr, "hs_push")

\* A failed push is reported and 'Sync complete!' follows all the same.
HS_AfterPush(pr, ret) ==
  IF ret.kind = "throw" THEN Finished(pr, CatchMessage(ret.text))
  ELSE Finished(pr, Result(TRUE, ""))

\* ------------------------------------------- the git file operations
\* createFileWithGit, createFolderWithGit, deleteFileWithGit,
\* deleteFolderWithGit and renameWithGit: the file operation (fileOp; nothing
\* catches what it throws), the repo-root lookup (root, what diffTracker's
\* findGitRepoRoot answered), and syncToGit when a root was found.
WG_Begin(fileOp, root, cred) ==
  LET pr == Started("withGit") IN
  IF fileOp \in ThrownValues THEN Finished([pr EXCEPT !.failedAt = "file_op"], Rejected)
  ELSE IF root.kind = "null" THEN Finished(pr, Result(TRUE, ""))
  ELSE [STG_Begin(cred) EXCEPT !.entry = "withGit"]

\* A caller of one primitive of the native module, which takes what the
\* primitive resolves with (or its rejection).
Direct_After(pr, ret) ==
  IF ret.kind = "throw" THEN Finished(pr, Rejected)
  ELSE Finished(pr, Result(ret.success, ""))

\* The caller's code from the return of the primitive it awaits to its next
\* await or its return.
After(pr, ret, cb) ==
  CASE pr.pc = "cas_push1" -> CAS_AfterPush1(pr, ret)
    [] pr.pc = "cas_pull" -> CAS_AfterPull(pr, ret)
    [] pr.pc = "cas_push2" -> CAS_AfterPush2(pr, ret)
    [] pr.pc = "sr_pull" -> SR_AfterPull(pr, ret, cb)
    [] pr.pc = "sr_push" -> SR_AfterPush(pr, ret, cb)
    [] pr.pc = "stg_push1" -> STG_AfterPush1(pr, ret)
    [] pr.pc = "stg_pull" -> STG_AfterPull(pr, ret)
    [] pr.pc = "stg_push2" -> STG_AfterPush2(pr, ret)
    [] pr.pc = "ps_isrepo" -> PS_AfterIsRepository(pr, ret)
    [] pr.pc = "ps_clone" -> PS_AfterClone(pr, ret)
    [] pr.pc = "ps_pull" -> PS_AfterPull(pr, ret)
    [] pr.pc = "ps_push" -> PS_AfterPush(pr, ret)
    [] pr.pc = "hs_isrepo" -> HS_AfterIsRepository(pr, ret)
    [] pr.pc = "hs_clone" -> HS_AfterClone(pr, ret)
    [] pr.pc = "hs_pull" -> HS_AfterPull(pr, ret)
    [] pr.pc = "hs_push" -> HS_AfterPush(pr, ret)
    [] pr.pc = "co_push" -> CO_AfterPush(pr, ret)
    [] pr.pc \in {"nat_pull", "nat_push", "nat_clone"} -> Direct_After(pr, ret)

\* The environment has interfered with the call (or not: hit = FALSE).
Interfered(pr, hit) ==
  [pr EXCEPT !.disturbed = @ \/ hit, !.start = IF hit THEN NoStart ELSE @]

\* The primitive returned `ret` (or threw); the caller runs on.
Resume(pr, ret, cb, fault) ==
  Interfered(After(Seen(pr, ret), ret, IF pr.entry = "syncRepo" THEN cb ELSE "ok"),
             fault \/ ret.kind = "throw" \/ (pr.entry = "syncRepo" /\ cb # "ok"))

\* The primitive has returned `ret` to a caller that is now at `pr`.
Returned(nt, pr, ret) ==
  [nt EXCEPT !.stage = IF pr.pc = "done" THEN "none" ELSE "call",
             !.ret = IF pr.pc = "done" THEN ret ELSE NoRet,
             !.orig = NoRev, !.target = NoRev, !.fetchFailed = "none"]

\* ------------------------------------------------------------- entry points
Enter(p, pr, fault) ==
  /\ proc[p].pc = "idle" /\ \A q \in Procs : proc[q].pc # "done"
  /\ proc' = [proc EXCEPT ![p] =
       Interfered([pr EXCEPT !.start = [repo |-> repo, origin |-> origin]], fault)]
  /\ nat' = [nat EXCEPT ![p] = [IdleNat EXCEPT !.stage =
                                  IF pr.pc = "done" THEN "none" ELSE "call"]]
  /\ UNCHANGED <<gitVars, last, resolverVars, auth, serviceVars>>

commitAndSync(p) ==
  \E root \in ResolverOutcomes, cred \in CredentialOutcomes :
    Enter(p, CAS_Begin(root, cred, repo.cloned), root # "found" \/ cred # "present")

commitOnly(p) ==
  \E root \in ResolverOutcomes, cred \in CredentialOutcomes :
    Enter(p, CO_Begin(root, cred, repo.cloned), root # "found" \/ cred # "present")

syncRepo(p) ==
  \E root \in ResolverOutcomes, cred \in CredentialOutcomes, cb \in CallbackOutcomes :
    Enter(p, SR_Begin(root, cred, repo.cloned, cb),
          root # "found" \/ cred # "present" \/ cb # "ok")

syncToGit(p) ==
  \E cred \in CredentialOutcomes : Enter(p, STG_Begin(cred), cred # "present")

performSync(p) ==
  \E sel \in ResolverOutcomes, cred \in CredentialOutcomes :
    Enter(p, PS_Begin(sel, cred), sel # "found" \/ cred # "present")

handleSync(p) ==
  \E sel \in ResolverOutcomes, cred \in CredentialOutcomes :
    Enter(p, HS_Begin(sel, cred), sel # "found" \/ cred # "present")

\* LifeDBGit.pull, LifeDBGit.push and LifeDBGit.clone called on their own.
pull(p) == Enter(p, Await(Started("pull"), "nat_pull"), FALSE)

push(p) == Enter(p, Await(Started("push"), "nat_push"), FALSE)

clone(p) == Enter(p, Await(Started("clone"), "nat_clone"), FALSE)

\* ----------------------------------------------------- primitives at work
Throws == {"no"} \cup ThrownValues

\* The log callback is syncRepo's alone.
Callbacks(pr) == IF pr.entry = "syncRepo" THEN CallbackOutcomes ELSE {"ok"}

\* The inputs of one run of push: a primitive that throws does nothing else,
\* and an error text is drawn only where an error is reported.
PushInputs ==
  {i \in [fault : PushFaults, statusOk : BOOLEAN, transport : PushTransports,
          w : LibErrTexts, t : Throws] :
     /\ i.t # "no" => i.fault = "none" /\ i.statusOk /\ i.transport = "ok"
     /\ i.fault # "none" => i.transport = "ok"
     /\ i.w # {} => i.t = "no" /\ (i.fault \notin {"none", "commitNothing"}
                                   \/ i.transport = "error")}

PullInputs ==
  {i \in [fault : PullFaults, fetch : FetchOutcomes, statusOk : BOOLEAN,
          w : LibErrTexts, t : Throws] :
     /\ i.t # "no" => i.fault = "none" /\ i.statusOk /\ i.fetch = "ok"
     /\ i.fault # "none" => i.fetch = "ok"
     /\ i.w # {} => i.t = "no" /\ (i.fault \in {"open", "lookup", "commitLookup"}
                                   \/ i.fetch # "ok")}

ResetInputs ==
  {i \in [outcome : ResetOutcomes, wrote : BOOLEAN, rollback : RollbackOutcomes,
          w : LibErrTexts] :
     /\ i.outcome = "ok" => ~i.wrote /\ i.rollback = "ok" /\ i.w = {}
     /\ i.outcome = "failLate" => i.wrote}

CloneInputs ==
  {i \in [ok : BOOLEAN, w : LibErrTexts, t : Throws] :
     /\ i.t # "no" => i.ok
     /\ i.w # {} => i.t = "no" /\ ~i.ok}

\* The AsyncFunctions of the module run one at a time (Expo's queue for
\* AsyncFunction bodies is serial): no primitive starts
\* while the pull of another caller is between its checks and its reset.
\* A caller reads the result of its finished call before another caller's
\* primitive runs (as Settled has it for the environment).
NativeFree(p) ==
  \A q \in Procs \ {p} : nat[q].stage # "reset" /\ proc[q].pc # "done"

Push(p) ==
  /\ proc[p].pc \in PushLabels /\ NativeFree(p)
  /\ \E i \in PushInputs, cb \in Callbacks(proc[p]) :
       LET out == PushStep(repo, origin, commits, i.fault, i.statusOk, i.transport, i.w)
           ret == IF i.t = "no" THEN out.ret ELSE Thrown(i.t) IN
       /\ Len(out.commits) <= MaxRev
       /\ RemoteOpAgrees("push", i.t # "no", i.fault \in {"none", "commitNothing"},
                         i.fault \in {"lookup", "head"}, i.transport = "error")
       /\ IF i.t = "no"
          THEN repo' = out.repo /\ origin' = out.origin /\ commits' = out.commits
          ELSE UNCHANGED <<repo, origin, commits>>
       /\ proc' = [proc EXCEPT ![p] =
            Resume(@, ret, cb, i.fault # "none" \/ ~i.statusOk \/ i.transport # "ok")]
       /\ nat' = [nat EXCEPT ![p] = Returned(@, proc'[p], ret)]
  /\ auth' = NoRemoteOp
  /\ UNCHANGED <<originDefault, last, resolverVars, serviceVars>>

\* pull up to its reset, run on one of `inputs`.
PullFetchWith(p, inputs) ==
  /\ proc[p].pc \in PullLabels /\ nat[p].stage = "call" /\ NativeFree(p)
  /\ \E i \in inputs, cb \in Callbacks(proc[p]) :
       LET out == PullFetchStep(repo, origin, commits, i.fault, i.fetch, i.statusOk, i.w)
           ret == IF i.t = "no" THEN out.ret ELSE Thrown(i.t)
           bad == i.fault # "none" \/ i.fetch # "ok" \/ ~i.statusOk IN
       /\ RemoteOpAgrees("fetch", i.t # "no", i.fault \in {"none", "commitLookup"},
                         i.fault = "lookup", i.fetch = "auth")
       /\ repo' = IF i.t = "no" THEN out.repo ELSE repo
       /\ IF i.t = "no" /\ out.next = "reset"
          THEN /\ nat' = [nat EXCEPT ![p] = [@ EXCEPT !.stage = "reset",
                            !.orig = out.orig, !.target = out.target,
                            !.guard = out.guard]]
               /\ proc' = [proc EXCEPT ![p] = Interfered(@, bad)]
          ELSE /\ proc' = [proc EXCEPT ![p] = Resume(@, ret, cb, bad)]
               /\ nat' = [nat EXCEPT ![p] =
                    [Returned(@, proc'[p], ret) EXCEPT
                       !.guard = i.t = "no" /\ out.guard,
                       !.fetchFailed = IF i.t = "no" /\ proc'[p].pc = "done"
                                       THEN out.fetchFailed ELSE "none"]]
  /\ auth' = NoRemoteOp
  /\ UNCHANGED <<origin, originDefault, commits, last, resolverVars, serviceVars>>

PullFetch(p) == PullFetchWith(p, PullInputs)

\* A pull that fails where it reports an error description, the description
\* being any text: every combination of the words the classifiers look for.
PullFailureTexts ==
  {i \in [fault : PullFaults, fetch : FetchOutcomes, statusOk : BOOLEAN,
          w : SUBSET Keywords, t : Throws] :
     /\ i.t = "no" /\ i.statusOk
     /\ \/ i.fault \in {"open", "lookup"} /\ i.fetch = "ok"
        \/ i.fault = "none" /\ i.fetch # "ok"}

PullFails(p) == PullFetchWith(p, PullFailureTexts)

PullReset(p) ==
  /\ proc[p].pc \in PullLabels /\ nat[p].stage = "reset"
  /\ \E i \in ResetInputs, cb \in Callbacks(proc[p]) :
       LET out == PullResetStep(repo, commits, nat[p].orig, nat[p].target,
                                i.outcome, i.wrote, i.rollback, i.w) IN
       /\ repo' = out.repo
       /\ proc' = [proc EXCEPT ![p] = Resume(@, out.ret, cb, i.outcome # "ok")]
       /\ nat' = [nat EXCEPT ![p] = Returned(@, proc'[p], out.ret)]
  /\ UNCHANGED <<origin, originDefault, commits, last, resolverVars, auth, serviceVars>>

Clone(p) ==
  /\ proc[p].pc \in CloneLabels /\ NativeFree(p)
  /\ \E i \in CloneInputs :
       LET out == CloneStep(repo, origin, originDefault, commits, i.ok, i.w)
           ret == IF i.t = "no" THEN out.ret ELSE Thrown(i.t) IN
       /\ repo' = IF i.t = "no" THEN out.repo ELSE repo
       /\ proc' = [proc EXCEPT ![p] = Resume(@, ret, "ok", ~i.ok)]
       /\ nat' = [nat EXCEPT ![p] = Returned(@, proc'[p], ret)]
  /\ UNCHANGED <<origin, originDefault, commits, last, resolverVars, auth, serviceVars>>

\* LifeDBGit.isRepository: whether Repository.at succeeds.
IsRepository(p) ==
  /\ proc[p].pc \in IsRepositoryLabels /\ NativeFree(p)
  /\ \E t \in Throws :
       LET ret == IF t # "no" THEN Thrown(t)
                  ELSE IF repo.cloned THEN Ok("true") ELSE Err("false", {}) IN
       /\ proc' = [proc EXCEPT ![p] = Resume(@, ret, "ok", FALSE)]
       /\ nat' = [nat EXCEPT ![p] = Returned(@, proc'[p], ret)]
  /\ UNCHANGED <<gitVars, last, resolverVars, auth, serviceVars>>

\* pull creates its credential context and starts git_remote_fetch.
StartFetch(p) ==
  /\ proc[p].pc \in PullLabels /\ nat[p].stage = "call" /\ NativeFree(p)
  /\ repo.cloned /\ auth.op = "none"
  /\ auth' = [NoRemoteOp EXCEPT !.op = "fetch"]
  /\ UNCHANGED <<gitVars, proc, nat, last, resolverVars, serviceVars>>

\* push creates its credential context and starts git_remote_push.
StartPush(p) ==
  /\ proc[p].pc \in PushLabels /\ NativeFree(p)
  /\ repo.cloned /\ auth.op = "none"
  /\ auth' = [NoRemoteOp EXCEPT !.op = "push"]
  /\ UNCHANGED <<gitVars, proc, nat, last, resolverVars, serviceVars>>

\* The server asks the remote operation for authentication and libgit2 calls
\* credentialCallback with the operation's context; the operation goes on to
\* another challenge only after a credential was supplied, and the server
\* repeats a challenge at most MaxChallenges times.
Challenge ==
  /\ auth.op # "none" /\ auth.challenges < MaxChallenges
  /\ auth.code \in {"none", "GIT_OK"}
  /\ \E allowed \in BOOLEAN, created \in BOOLEAN :
       LET out == CredentialCallback(auth.context, allowed, created) IN
       auth' = [auth EXCEPT !.context = out.context, !.code = out.code,
                            !.challenges = @ + 1,
                            !.supplied = IF out.supplied THEN @ + 1 ELSE @]
  /\ UNCHANGED <<gitVars, proc, nat, last, resolverVars, serviceVars>>

\* The caller has its result; the next call may start.
Finish(p) ==
  /\ proc[p].pc = "done"
  /\ last' = IF proc[p].result.kind = "value" /\ proc[p].result.success
                 /\ ~proc[p].disturbed /\ proc[p].nPush + proc[p].nPull > 0
              THEN proc[p].entry ELSE "none"
  /\ proc' = [proc EXCEPT ![p] = IdleProc]
  /\ nat' = [nat EXCEPT ![p] = IdleNat]
  /\ UNCHANGED <<gitVars, resolverVars, auth, serviceVars>>

\* ------------------------------------------------------------- environment
Disturbed(pr) == [q \in Procs |-> IF pr[q].pc # "idle"
                                  THEN Interfered(pr[q], TRUE) ELSE pr[q]]

\* No file write and no remote push falls between a call's return and the
\* caller reading the result.
Settled == \A q \in Procs : proc[q].pc # "done"

\* The application writes a file of the working tree.
Edit(c) ==
  /\ Settled /\ repo.cloned /\ c # repo.wt
  /\ repo' = [repo EXCEPT !.wt = c]
  /\ proc' = Disturbed(proc) /\ last' = "none"
  /\ UNCHANGED <<origin, originDefault, commits, nat, resolverVars, auth, serviceVars>>

\* Another writer pushes a commit that changes the content of a branch of
\* the remote.
RemoteWrite(b, c) ==
  /\ Settled /\ origin[b] # NoRev /\ Len(commits) < MaxRev
  /\ c # TreeOf(commits, origin[b])
  /\ commits' = Append(commits, [parent |-> origin[b], tree |-> c])
  /\ origin' = [origin EXCEPT ![b] = Len(commits) + 1]
  /\ proc' = [q \in Procs |-> IF proc[q].pc # "idle"
                               THEN [Disturbed(proc)[q] EXCEPT !.remoteMoved = TRUE]
                               ELSE proc[q]]
  /\ last' = "none"
  /\ UNCHANGED <<repo, originDefault, nat, resolverVars, auth, serviceVars>>

\* ----------------------------------------- REST sync (githubSyncService)
\* The files at the top level of the documents directory and of the GitHub
\* repository: a name is its stem and its extension.
Absent == "absent"
FileOrder == <<[stem |-> "notes", ext |-> "md"],
               [stem |-> "photo", ext |-> "png"],
               [stem |-> "todo", ext |-> "txt"]>>
Files == {FileOrder[i] : i \in 1..Len(FileOrder)}
\* item.name.endsWith('.md') || item.name.endsWith('.txt')
IsSynced(f) == f.ext \in {"md", "txt"}
SyncedFiles == {f \in Files : IsSynced(f)}
\* Where a write may throw besides a file: nowhere, or at the sync time.
NoFile == [stem |-> "none", ext |-> ""]
SyncTime == [stem |-> "github_last_sync", ext |-> ""]

\* What a local file holds (a string) and what a GitHub file holds (bytes):
\* ASCII bytes, the UTF-8 bytes of accented text, bytes that are not UTF-8,
\* and the UTF-8 bytes of the string those read as.
Texts == {"plain", "accented", "binary"}
Bytes == {"ascii", "utf8", "latin1", "utf8 of binary"}

\* base64Decode of the API's base64: the bytes read as UTF-8, or, when they
\* are not UTF-8, atob's string of one character per byte.
base64Decode(b) ==
  CASE b = "ascii" -> "plain"
    [] b = "utf8" -> "accented"
    [] b = "latin1" -> "binary"
    [] b = "utf8 of binary" -> "binary"

\* base64Encode: the base64 of the string's UTF-8 bytes.
base64Encode(t) ==
  CASE t = "plain" -> "ascii"
    [] t = "accented" -> "utf8"
    [] t = "binary" -> "utf8 of binary"

SyncResult(success, up, down, error) ==
  [success |-> success, error |-> error, filesUploaded |-> up, filesDownloaded |-> down]
NoSyncResult == SyncResult(FALSE, 0, 0, "none")

\* token: an access token is stored (getOctokit answers an instance);
\* selected: a repository is selected; local, remote: the files; pc: where
\* syncWithGitHub stands; calls: the steps it has run; pullResult, result:
\* what pullFromGitHub and syncWithGitHub returned; uploaded: the files push
\* counted; start: the files when syncWithGitHub was called.
GitHubState(token, selected, local, remote) ==
  [pc |-> "idle", result |-> NoSyncResult,
   start |-> [local |-> local, remote |-> remote],
   token |-> token, selected |-> selected, local |-> local, remote |-> remote,
   calls |-> <<>>, pullResult |-> NoSyncResult, uploaded |-> {}]
NoGitHub ==
  GitHubState(FALSE, FALSE, [f \in Files |-> Absent], [f \in Files |-> Absent])

\* What can go wrong during pullFromGitHub: listRepoFiles fails (it answers
\* []), getFileContent fails for the files in `get` (it answers null),
\* localFile.text() throws for the files in `read`, and the write of the
\* file throwAt, or the write of the sync time, throws.
PullFaultSets ==
  [list : BOOLEAN, get : SUBSET SyncedFiles, read : SUBSET SyncedFiles,
   throwAt : SyncedFiles \cup {NoFile, SyncTime}]
\* During pushToGitHub: item.text() throws for the files in `read`,
\* getFileContent fails for those in `get`, updateFile for those in `update`,
\* and the write of the sync time may throw.
PushFaultSets ==
  [read : SUBSET SyncedFiles, get : SUBSET SyncedFiles,
   update : SUBSET SyncedFiles, throwAt : {NoFile, SyncTime}]

\* getFileContent: null without an instance, when the request fails (the
\* file is not there, or the fault), else the decoded content.
getFileContent(g, remote, f, failing) ==
  IF ~g.token \/ f \in failing \/ remote[f] = Absent THEN Absent
  ELSE base64Decode(remote[f])

\* listRepoFiles(owner, repo, ''): [] without an instance or when the
\* request fails, else the entries of the repository's top level.
listRepoFiles(g, failing) ==
  IF ~g.token \/ failing THEN {} ELSE {f \in Files : g.remote[f] # Absent}

\* pullFromGitHub's loop from file i on: local files so far, files counted.
RECURSIVE PullLoop(_, _, _, _, _)
PullLoop(g, faults, i, local, n) ==
  IF i > Len(FileOrder) THEN [local |-> local, n |-> n, threw |-> FALSE]
  ELSE
    LET f == FileOrder[i]
        githubContent == getFileContent(g, g.remote, f, faults.get)
        shouldDownload ==
          IF local[f] # Absent /\ f \notin faults.read
          THEN local[f] # githubContent ELSE TRUE
    IN IF f \notin listRepoFiles(g, faults.list) \/ ~IsSynced(f)
          \/ githubContent = Absent \/ ~shouldDownload
       THEN PullLoop(g, faults, i + 1, local, n)
       ELSE IF faults.throwAt = f
       THEN [local |-> local, n |-> n, threw |-> TRUE]
       ELSE PullLoop(g, faults, i + 1, [local EXCEPT ![f] = githubContent], n + 1)

\* pullFromGitHub: the local files after it and its result.
pullFromGitHub(g, faults) ==
  IF ~g.selected
  THEN [local |-> g.local, result |-> SyncResult(FALSE, 0, 0, "No repository selected")]
  ELSE LET done == PullLoop(g, faults, 1, g.local, 0) IN
       IF done.threw \/ faults.throwAt = SyncTime
       THEN [local |-> done.local, result |-> SyncResult(FALSE, 0, 0, "String(error)")]
       ELSE [local |-> done.local, result |-> SyncResult(TRUE, 0, done.n, "none")]

\* updateFile: false without an instance or when the request fails; GitHub
\* refuses to write over an existing file when no sha is given.
updateFile(g, remote, f, githubFile, failing) ==
  g.token /\ f \notin failing /\ (githubFile = Absent => remote[f] = Absent)

\* pushToGitHub's loop from file i on: GitHub's files so far, files uploaded.
RECURSIVE PushLoop(_, _, _, _, _)
PushLoop(g, faults, i, remote, uploaded) ==
  IF i > Len(FileOrder) THEN [remote |-> remote, uploaded |-> uploaded]
  ELSE
    LET f == FileOrder[i]
        githubFile == getFileContent(g, remote, f, faults.get)
    IN IF g.local[f] = Absent \/ ~IsSynced(f) \/ f \in faults.read
          \/ githubFile = g.local[f]
       THEN PushLoop(g, faults, i + 1, remote, uploaded)
       ELSE IF updateFile(g, remote, f, githubFile, faults.update)
       THEN PushLoop(g, faults, i + 1,
                     [remote EXCEPT ![f] = base64Encode(g.local[f])],
                     uploaded \cup {f})
       ELSE PushLoop(g, faults, i + 1, remote, uploaded)

\* pushToGitHub: GitHub's files after it, the files it counted, its result.
pushToGitHub(g, faults) ==
  IF ~g.selected
  THEN [remote |-> g.remote, uploaded |-> {},
        result |-> SyncResult(FALSE, 0, 0, "No repository selected")]
  ELSE LET done == PushLoop(g, faults, 1, g.remote, {}) IN
       IF faults.throwAt = SyncTime
       THEN [remote |-> done.remote, uploaded |-> {},
             result |-> SyncResult(FALSE, 0, 0, "String(error)")]
       ELSE [remote |-> done.remote, uploaded |-> done.uploaded,
             result |-> SyncResult(TRUE, Cardinality(done.uploaded), 0, "none")]

\* syncWithGitHub is called and pulls; a failed pull is what it returns.
syncWithGitHub(faults) ==
  /\ github.pc = "idle"
  /\ LET pulled == pullFromGitHub(github, faults) IN
     github' = [github EXCEPT
                  !.local = pulled.local,
                  !.calls = <<"pull">>,
                  !.pullResult = pulled.result,
                  !.result = IF pulled.result.success THEN NoSyncResult ELSE pulled.result,
                  !.uploaded = {},
                  !.start = [local |-> github.local, remote |-> github.remote],
                  !.pc = IF pulled.result.success THEN "push" ELSE "done"]
  /\ UNCHANGED <<gitVars, proc, nat, last, resolverVars, auth, history, histCall>>

\* After a successful pull it pushes and returns.
SWG_AfterPull(faults) ==
  /\ github.pc = "push"
  /\ LET pushed == pushToGitHub(github, faults) IN
     github' = [github EXCEPT
                  !.remote = pushed.remote,
                  !.calls = Append(github.calls, "push"),
                  !.uploaded = pushed.uploaded,
                  !.result =
                    IF ~pushed.result.success
                    THEN [pushed.result EXCEPT
                            !.filesDownloaded = github.pullResult.filesDownloaded]
                    ELSE SyncResult(TRUE, pushed.result.filesUploaded,
                                    github.pullResult.filesDownloaded, "none"),
                  !.pc = "done"]
  /\ UNCHANGED <<gitVars, proc, nat, last, resolverVars, auth, history, histCall>>

\* The sync screen shows the result; the next sync starts from the files as
\* they are now.
SWG_Shown ==
  /\ github.pc = "done"
  /\ github' = GitHubState(github.token, github.selected, github.local, github.remote)
  /\ UNCHANGED <<gitVars, proc, nat, last, resolverVars, auth, history, histCall>>

\* ------------------------------------------- undo history (diffTracker)
\* A DiffEntry, by its id and the two contents; its diff, source, prompt and
\* timestamp follow from the call and are never read back by these calls.
Entry(id, previousContent, newContent) ==
  [id |-> id, previousContent |-> previousContent, newContent |-> newContent]

\* loadHistory's answer when no history file exists or it cannot be read.
EmptyHistory == [entries |-> <<>>, currentIndex |-> -1]

\* No call on the history yet.  op, ret: the last call and what it returned
\* ("null", "void", a content, or "rejected" when saveHistory threw);
\* before: the history that call loaded; prev: the call before it; calls:
\* the calls made; clock: the last id generateId gave out (ids are taken as
\* never repeating).
NoHistCall ==
  [op |-> "none", ret |-> "none", calls |-> 0, before |-> EmptyHistory,
   prev |-> [op |-> "none", ret |-> "none"], clock |-> 0]

\* entries.slice(-n)
LastN(s, n) == IF Len(s) <= n THEN s ELSE SubSeq(s, Len(s) - n + 1, Len(s))

\* What recordChange saves, for contents that differ: the entries after
\* currentIndex are dropped, the new entry is pushed and made current, and
\* only the last HistoryLimit entries are kept.
RecordChangeUnlimited(h, id, previousContent, newContent) ==
  LET kept == IF h.currentIndex < Len(h.entries) - 1
              THEN SubSeq(h.entries, 1, h.currentIndex + 1) ELSE h.entries
      pushed == Append(kept, Entry(id, previousContent, newContent))
  IN [entries |-> pushed, currentIndex |-> Len(pushed) - 1]

RecordChangeKeepsFuture(h, id, previousContent, newContent) ==
  LET pushed == Append(h.entries, Entry(id, previousContent, newContent))
      limited == LastN(pushed, HistoryLimit)
  IN [entries |-> limited, currentIndex |-> Len(limited) - 1]

RecordChange(h, id, previousContent, newContent) ==
  LET kept == IF h.currentIndex < Len(h.entries) - 1
              THEN SubSeq(h.entries, 1, h.currentIndex + 1) ELSE h.entries
      pushed == Append(kept, Entry(id, previousContent, newContent))
      limited == IF Len(pushed) > HistoryLimit THEN LastN(pushed, HistoryLimit) ELSE pushed
  IN [entries |-> limited, currentIndex |-> Len(limited) - 1]

\* The history n recordChange calls leave behind (n within the limit), the
\* contents alternating and the ids 1..n.
Recorded(n) ==
  [entries |-> [i \in 1..n |->
                  Entry(i, IF i % 2 = 1 THEN "base" ELSE "edit",
                           IF i % 2 = 1 THEN "edit" ELSE "base")],
   currentIndex |-> n - 1]

\* entries.findIndex(e => e.id === entryId), counted from 0; -1: none.
RECURSIVE FindIndexFrom(_, _, _)
FindIndexFrom(entries, entryId, i) ==
  IF i > Len(entries) THEN -1
  ELSE IF entries[i].id = entryId THEN i - 1
  ELSE FindIndexFrom(entries, entryId, i + 1)
FindIndex(entries, entryId) == FindIndexFrom(entries, entryId, 1)

\* A call on the history ends: what it saved, when saveHistory did not throw.
HistReturn(op, saved, ret, written, clock) ==
  /\ histCall.calls < MaxCalls
  /\ history' = IF written THEN saved ELSE history
  /\ histCall' = [op |-> op, ret |-> IF written THEN ret ELSE "rejected",
                  calls |-> histCall.calls + 1, before |-> history,
                  prev |-> [op |-> histCall.op, ret |-> histCall.ret],
                  clock |-> clock]
  /\ UNCHANGED <<gitVars, proc, nat, last, resolverVars, auth, github>>

\* recordChange(filePath, previousContent, newContent, source): nothing is
\* loaded or saved when the contents are equal.
recordChange(previousContent, newContent, written) ==
  IF previousContent = newContent
  THEN HistReturn("recordChange", history, "void", TRUE, histCall.clock)
  ELSE HistReturn("recordChange",
                  RecordChange(history, histCall.clock + 1, previousContent, newContent),
                  "void", written, histCall.clock + 1)

\* undo(filePath): null when there is nothing to undo, else the current
\* entry's previousContent, the entry before it becoming current.
undo(written) ==
  IF history.currentIndex < 0 \/ Len(history.entries) = 0
  THEN HistReturn("undo", history, "null", TRUE, histCall.clock)
  ELSE HistReturn("undo",
                  [history EXCEPT !.currentIndex = history.currentIndex - 1],
                  history.entries[history.currentIndex + 1].previousContent,
                  written, histCall.clock)

\* redo(filePath): null when there is nothing to redo, else the next entry's
\* newContent, that entry becoming current.
redo(written) ==
  IF history.currentIndex >= Len(history.entries) - 1
  THEN HistReturn("redo", history, "null", TRUE, histCall.clock)
  ELSE HistReturn("redo",
                  [history EXCEPT !.currentIndex = history.currentIndex + 1],
                  history.entries[history.currentIndex + 2].newContent,
                  written, histCall.clock)

\* undoToEntry(filePath, entryId): null when no entry has the id, else that
\* entry becomes current and its newContent is returned.
undoToEntry(entryId, written) ==
  LET entryIndex == FindIndex(history.entries, entryId) IN
  IF entryIndex = -1
  THEN HistReturn("undoToEntry", history, "null", TRUE, histCall.clock)
  ELSE HistReturn("undoToEntry",
                  [history EXCEPT !.currentIndex = entryIndex],
                  history.entries[entryIndex + 1].newContent,
                  written, histCall.clock)

\* The entry ids a caller passes: an id no entry has, and those of the
\* first, the current, the next and the last entry.
EntryIds(h) ==
  {0} \cup {h.entries[i].id :
              i \in {1, h.currentIndex + 1, h.currentIndex + 2, Len(h.entries)}
                    \cap (1..Len(h.entries))}

\* -------------------------------------------------------------------- Init
\* The remotes the application is pointed at: the branches that exist, each
\* at the first revision, and the one the remote's HEAD names.
RemoteLayouts ==
  {l \in [present : SUBSET Branches \ {{}}, default : Branches] :
     /\ l.default \in l.present
     /\ l.present \in {{"main"}, {"master"}, {"main", "master"}, {"dev"}}}

\* A fresh installation: nothing cloned yet.
InitGit ==
  /\ commits = <<[parent |-> NoRev, tree |-> "base"]>>
  /\ \E l \in RemoteLayouts :
       /\ origin = [b \in Branches |-> IF b \in l.present THEN 1 ELSE NoRev]
       /\ originDefault = l.default
  /\ repo = NoRepo

\* No call has been made.
InitCallers ==
  /\ proc = [p \in Procs |-> IdleProc]
  /\ nat = [p \in Procs |-> IdleNat]
  /\ last = "none"
  /\ rpath = <<>> /\ rrepos = {} /\ rres = NotResolved
  /\ auth = NoRemoteOp
  /\ github = NoGitHub /\ history = EmptyHistory /\ histCall = NoHistCall

Init == InitGit /\ InitCallers

Primitives(p) ==
  \/ Push(p) \/ PullFetch(p) \/ PullReset(p) \/ Clone(p) \/ IsRepository(p)

Callers(p) ==
  \/ commitAndSync(p) \/ syncRepo(p) \/ syncToGit(p) \/ performSync(p)
  \/ handleSync(p) \/ Finish(p)

Environment ==
  \/ \E c \in Contents : Edit(c)
  \/ \E b \in Branches, c \in Contents : RemoteWrite(b, c)

Next == Callers(1) \/ Primitives(1) \/ Environment

Spec == Init /\ [][Next]_vars

\* The native module driven directly, one call at a time.
NextNative ==
  \/ pull(1) \/ push(1) \/ clone(1) \/ Finish(1)
  \/ Push(1) \/ PullFetch(1) \/ PullReset(1) \/ Clone(1)
  \/ Environment

SpecNative == Init /\ [][NextNative]_vars

\* The commit-first callers on a repository that has been cloned.
InitCloned ==
  /\ InitCallers
  /\ commits = <<[parent |-> NoRev, tree |-> "base"]>>
  /\ \E l \in RemoteLayouts :
       /\ origin = [b \in Branches |-> IF b \in l.present THEN 1 ELSE NoRev]
       /\ originDefault = l.default
  /\ repo = [cloned |-> TRUE, branch |-> originDefault, head |-> 1,
             index |-> "base", wt |-> "base", tracking |-> origin]

NextCommitFirst ==
  \/ commitAndSync(1) \/ syncToGit(1) \/ Finish(1)
  \/ Push(1) \/ PullFetch(1) \/ PullReset(1)
  \/ Environment

SpecCommitFirst == InitCloned /\ [][NextCommitFirst]_vars

\* Auto-save (caller 1, commitAndSync fired and not awaited by saveContent)
\* and pull-to-refresh (caller 2, syncRepo from handleRefresh) on the same
\* repository, cloned from a remote whose only branch is main; the user
\* keeps editing.
InitConc == InitCloned /\ origin["main"] # NoRev /\ origin["master"] = NoRev

NextConc ==
  \/ commitAndSync(1) \/ Push(1) \/ PullFetch(1) \/ PullReset(1) \/ Finish(1)
  \/ syncRepo(2) \/ Push(2) \/ PullFetch(2) \/ PullReset(2) \/ Finish(2)
  \/ \E c \in Contents : Edit(c)

SpecConc == InitConc /\ [][NextConc]_vars

\* The native module driven directly on a repository that has been cloned,
\* with the authentication of its fetches and pushes; the user keeps editing.
NextCredentials ==
  \/ pull(1) \/ push(1) \/ Finish(1)
  \/ StartFetch(1) \/ StartPush(1) \/ Challenge
  \/ Push(1) \/ PullFetch(1) \/ PullReset(1)
  \/ \E c \in Contents : Edit(c)

SpecCredentials == InitCloned /\ [][NextCredentials]_vars

\* performSync alone, from a fresh installation: its first call clones.
NextPerformSync ==
  \/ performSync(1) \/ Finish(1)
  \/ IsRepository(1) \/ Clone(1) \/ Push(1) \/ PullFetch(1) \/ PullReset(1)
  \/ Environment

SpecPerformSync == Init /\ [][NextPerformSync]_vars

\* Pull-to-refresh alone (syncRepo from handleRefresh) on a repository that
\* has been cloned.
NextSyncRepo ==
  \/ syncRepo(1) \/ Finish(1)
  \/ Push(1) \/ PullFetch(1) \/ PullReset(1)
  \/ Environment

SpecSyncRepo == InitCloned /\ [][NextSyncRepo]_vars

\* ------------------------------------------------------ repo-root resolver
\* A path is the sequence of its parts (relativePath.split('/').filter(Boolean)),
\* relative to the base directory; <<>> is the base directory itself.  Both
\* resolvers' results are given as the directory they name: gitService
\* returns '/' + the parts joined, the git file operations return the
\* absolute path of the same directory.
Names == {"a", "b"}

RECURSIVE PathsUpTo(_)
PathsUpTo(n) ==
  IF n = 0 THEN {<<>>}
  ELSE LET shorter == PathsUpTo(n - 1) IN
       shorter \cup {Append(q, x) : q \in {r \in shorter : Len(r) = n - 1}, x \in Names}

Paths == PathsUpTo(MaxDepth)

\* gitService.findGitRepoRoot: from the path itself up to the base directory,
\* the first directory that holds .git.
RECURSIVE WalkUp(_, _, _)
WalkUp(parts, repos, i) ==
  IF SubSeq(parts, 1, i) \in repos THEN Root(SubSeq(parts, 1, i))
  ELSE IF i = 0 THEN Null
  ELSE WalkUp(parts, repos, i - 1)

FindGitRepoRoot(parts, repos) == WalkUp(parts, repos, Len(parts))

\* The git file operations' findGitRepoRoot (diffTracker): from the first part
\* down to the path itself, the first directory LifeDBGit.isRepository
\* accepts; a check that throws counts as no repository.  The base directory
\* is not tested.
RECURSIVE WalkDown(_, _, _, _)
WalkDown(parts, repos, throwsAt, i) ==
  IF i > Len(parts) THEN Null
  ELSE IF i \notin throwsAt /\ SubSeq(parts, 1, i) \in repos THEN Root(SubSeq(parts, 1, i))
  ELSE WalkDown(parts, repos, throwsAt, i + 1)

FindGitRepoRootOps(parts, repos, throwsAt) == WalkDown(parts, repos, throwsAt, 1)

\* A repository is cloned into (or created in) directory d.
CloneInto(d) ==
  /\ d \notin rrepos /\ Cardinality(rrepos) < MaxRepos
  /\ rrepos' = rrepos \cup {d}
  /\ rpath' = <<>> /\ rres' = NotResolved
  /\ UNCHANGED <<gitVars, proc, nat, last, auth, serviceVars>>

\* A repository directory is deleted.
RemoveRepo(d) ==
  /\ d \in rrepos
  /\ rrepos' = rrepos \ {d}
  /\ rpath' = <<>> /\ rres' = NotResolved
  /\ UNCHANGED <<gitVars, proc, nat, last, auth, serviceVars>>

\* Both resolvers are asked for the repository of `parts`; rres holds what
\* gitService's (gs) and the git file operations' (ops) resolver answered,
\* and whether LifeDBGit.isRepository threw at one of the levels.
Resolve(parts, throwsAt) ==
  /\ rpath' = parts
  /\ rres' = [asked |-> TRUE, gs |-> FindGitRepoRoot(parts, rrepos),
              ops |-> FindGitRepoRootOps(parts, rrepos, throwsAt),
              threw |-> throwsAt # {}]
  /\ UNCHANGED <<rrepos, gitVars, proc, nat, last, auth, serviceVars>>

NextResolve ==
  \/ \E d \in Paths : CloneInto(d)
  \/ \E d \in Paths : RemoveRepo(d)
  \/ \E parts \in Paths : \E throwsAt \in SUBSET (1..Len(parts)) : Resolve(parts, throwsAt)

SpecResolve == Init /\ [][NextResolve]_vars

\* No call is running or waiting to be read.
Quiet == \A q \in Procs : proc[q].pc = "idle"

\* What the user types is not what the other writer pushed: the contents a
\* file of the working tree can be given.
Drafts == Contents \cup {"draft"}

\* The commit-first callers on a repository cloned from a remote whose only
\* branch is main, called one after the other; between the calls the user
\* writes contents of their own and other writers push to the remote.
NextDiverged ==
  \/ commitAndSync(1) \/ syncToGit(1) \/ Finish(1)
  \/ Push(1) \/ PullFetch(1) \/ PullReset(1)
  \/ \E c \in Drafts : Quiet /\ Edit(c)
  \/ \E b \in Branches, c \in Contents : Quiet /\ RemoteWrite(b, c)

SpecDiverged == InitConc /\ [][NextDiverged]_vars

\* The entry points that read the credentials, called one after the other
\* from a fresh installation (performSync clones); the user edits between
\* the calls.
NextCredentialGate ==
  \/ commitAndSync(1) \/ commitOnly(1) \/ syncRepo(1) \/ syncToGit(1) \/ performSync(1)
  \/ Finish(1)
  \/ Push(1) \/ PullFetch(1) \/ PullReset(1) \/ Clone(1) \/ IsRepository(1)
  \/ \E c \in Contents : Quiet /\ Edit(c)

SpecCredentialGate == Init /\ [][NextCredentialGate]_vars

\* commitAndSync on a cloned repository whose pulls fail with every kind of
\* error description.
NextClassify ==
  \/ commitAndSync(1) \/ Finish(1) \/ Push(1) \/ PullFails(1)
  \/ \E c \in Contents : Quiet /\ Edit(c)

SpecClassify == InitCloned /\ [][NextClassify]_vars

\* The folder screen clones a repository into a folder of the base directory.
handleCloneRepo(name) == Quiet /\ CloneInto(<<name>>)

\* commitAndSync for the path last resolved (saveContent's path).
commitAndSyncPath(p) ==
  /\ rres.asked
  /\ \E cred \in CredentialOutcomes :
       LET root == IF rres.gs.kind = "root" THEN "found" ELSE "notFound" IN
       Enter(p, CAS_Begin(root, cred, TRUE), root = "found" /\ cred # "present")

\* A git file operation on the path last resolved.
WithGit(p) ==
  /\ rres.asked
  /\ \E fileOp \in {"ok"} \cup ThrownValues, cred \in CredentialOutcomes :
       Enter(p, WG_Begin(fileOp, rres.ops, cred),
             fileOp # "ok" \/ (rres.ops.kind = "root" /\ cred # "present"))

\* Files inside and outside the repositories cloned into the base directory
\* are saved and created; a repository directory that is found but cannot be
\* opened makes the primitives fail.
NextUntracked ==
  \/ \E name \in Names : handleCloneRepo(name)
  \/ \E d \in Paths : Quiet /\ RemoveRepo(d)
  \/ \E parts \in Paths : \E throwsAt \in SUBSET (1..Len(parts)) :
       Quiet /\ Resolve(parts, throwsAt)
  \/ commitAndSyncPath(1) \/ WithGit(1) \/ Finish(1)
  \/ Push(1) \/ PullFetch(1)

SpecUntracked == Init /\ [][NextUntracked]_vars

\* ------------------------------------------- the services besides git sync
\* The REST sync and the undo history never touch the git repository: a
\* fresh installation, a remote whose only branch is main, no call made.
InitServices ==
  /\ commits = <<[parent |-> NoRev, tree |-> "base"]>>
  /\ origin = [b \in Branches |-> IF b = "main" THEN 1 ELSE NoRev]
  /\ originDefault = "main"
  /\ repo = NoRepo
  /\ proc = [p \in Procs |-> IdleProc]
  /\ nat = [p \in Procs |-> IdleNat]
  /\ last = "none"
  /\ rpath = <<>> /\ rrepos = {} /\ rres = NotResolved
  /\ auth = NoRemoteOp

\* The files a sync may find: each synced file absent or present on either
\* side, with equal or different contents; the image is on both sides.
LocalFiles ==
  {l \in [Files -> {Absent, "plain", "accented"}] :
     \A f \in Files \ SyncedFiles : l[f] = "plain"}
RemoteFiles ==
  {r \in [Files -> {Absent, "ascii", "utf8", "latin1"}] :
     \A f \in Files \ SyncedFiles : r[f] = "utf8"}

InitGitHubSync ==
  /\ InitServices
  /\ history = EmptyHistory /\ histCall = NoHistCall
  /\ \E token \in BOOLEAN, selected \in BOOLEAN, l \in LocalFiles, r \in RemoteFiles :
       github = GitHubState(token, selected, l, r)

NextGitHubSync ==
  \/ \E faults \in PullFaultSets : syncWithGitHub(faults)
  \/ \E faults \in PushFaultSets : SWG_AfterPull(faults)
  \/ SWG_Shown

SpecGitHubSync == InitGitHubSync /\ [][NextGitHubSync]_vars

\* The undo history of one file, from a history file that earlier sessions
\* left behind: empty, short, one short of the limit, or at the limit.
StoredLengths == {0, 1, 2, HistoryLimit - 1, HistoryLimit}

InitHistory ==
  /\ InitServices
  /\ github = NoGitHub
  /\ \E n \in StoredLengths :
       /\ history = Recorded(n)
       /\ histCall = [NoHistCall EXCEPT !.clock = n]

NextHistory ==
  \/ \E previousContent \in Contents, newContent \in Contents, written \in BOOLEAN :
       recordChange(previousContent, newContent, written)
  \/ \E written \in BOOLEAN : undo(written)
  \/ \E written \in BOOLEAN : redo(written)
  \/ \E entryId \in EntryIds(history), written \in BOOLEAN : undoToEntry(entryId, written)

SpecHistory == InitHistory /\ [][NextHistory]_vars

\* ================================================================ properties
ValueSuccess(pr) == pr.result.kind = "value" /\ pr.result.success
ValueFailure(pr) == pr.result.kind = "value" /\ ~pr.result.success

\* A step of a primitive of caller p (an edit or a remote write leaves nat alone).
PrimitiveStep(p) == nat'[p] # nat[p] /\ proc[p].pc \in PushLabels \cup PullLabels \cup CloneLabels

\* C1 - No silent data loss: in pull, syncRepo, commitAndSync and performSync,
\* when the working tree has uncommitted changes and the fetched remote
\* revision differs from HEAD at the time pull compares them, the call
\* returns a failure, classified as conflict where the caller classifies, and
\* the pull leaves HEAD and the working tree as they were.
C1_Step ==
  \A p \in Procs :
    proc'[p].entry \in {"pull", "syncRepo", "commitAndSync", "performSync"}
      /\ nat'[p].guard /\ nat'[p] # nat[p] /\ proc[p].pc \in PullLabels
    => /\ repo'.head = repo.head /\ repo'.wt = repo.wt
       /\ proc'[p].pc = "done" => ValueFailure(proc'[p])
       /\ proc'[p].pc = "done" /\ proc'[p].entry = "commitAndSync"
            => proc'[p].result.reason = "conflict"

C1_NoSilentDataLoss == [][C1_Step]_vars

\* C2 - One operation per root: at most one sync call is in flight on the
\* repository at any time; a second call waits for the first to return or is
\* turned away.
C2_OneInFlight == Cardinality({p \in Procs : InFlight(p)}) <= 1

\* C3 - Convergence: when syncRepo, commitAndSync, syncToGit or performSync
\* has run its primitives on the repository and returns success, and no
\* other writer pushed to the remote during the call, local HEAD is the
\* revision of the remote branch the local branch tracks.
C3_Convergence ==
  \A p \in Procs :
    proc[p].pc = "done" /\ ValueSuccess(proc[p]) /\ ~proc[p].remoteMoved
      /\ proc[p].entry \in {"syncRepo", "commitAndSync", "syncToGit", "performSync"}
      /\ nat[p].ret.kind = "value"
    => repo.head = origin[repo.branch]

\* C4 - Rollback on reset failure: whenever pull reports a failed reset as
\* rolled back, HEAD is the revision that was current before the reset.
C4_Step ==
  \A p \in Procs :
    nat[p].stage = "reset" /\ nat'[p].ret.text = "Reset failed. Rolled back."
    => repo'.head = nat[p].orig

C4_RolledBack == [][C4_Step]_vars

CommitFirst == {"syncToGit", "commitAndSync"}

\* C5 - Retry bound: a call of syncToGit or commitAndSync invokes push at most
\* twice and pull at most once; when every push of the call failed and the
\* pull succeeded, the finished call has made exactly two pushes.
C5_RetryBound ==
  \A p \in Procs :
    proc[p].entry \in CommitFirst
    => /\ proc[p].nPush <= 2 /\ proc[p].nPull <= 1
       /\ proc[p].pc = "done" /\ proc[p].result.kind = "value" /\ proc[p].pullOk
            /\ proc[p].pushFailed = proc[p].nPush
          => proc[p].nPush = 2

\* A commit-first call has finished after two failed pushes around a pull
\* that succeeded.
C5_Witness ==
  \E p \in Procs :
    /\ proc[p].entry = "syncToGit" /\ proc[p].pc = "done"
    /\ proc[p].nPush = 2 /\ proc[p].pushFailed = 2 /\ proc[p].nPull = 1 /\ proc[p].pullOk

\* C6 - Idempotence: a sync call that follows a successful call of the same
\* entry point, with no change of a file or of the remote since and no fault
\* during it, succeeds and changes neither the working tree, the commits,
\* HEAD nor the remote.
C6_Step ==
  \A p \in Procs :
    last = proc[p].entry /\ PrimitiveStep(p)
      /\ last \in {"syncRepo", "commitAndSync", "syncToGit", "performSync"}
      /\ ~proc'[p].disturbed
    => /\ repo'.wt = repo.wt /\ repo'.head = repo.head
       /\ commits' = commits /\ origin' = origin
       /\ proc'[p].pc = "done" => ValueSuccess(proc'[p])

C6_Idempotence == [][C6_Step]_vars

\* The revision C7 expects pull to take: origin/main when that ref exists,
\* else origin/master.
MainElseMaster ==
  IF repo.tracking["main"] # NoRev THEN repo.tracking["main"] ELSE repo.tracking["master"]

\* C7 - Branch fallback order: pull resets to (or finds itself up to date
\* with) origin/main whenever that ref exists, origin/master only when
\* origin/main is absent, and fails with 'Could not find origin/main or
\* origin/master' when neither exists.
C7_BranchFallback ==
  \A p \in Procs :
    /\ nat[p].stage = "reset" => nat[p].target = MainElseMaster /\ MainElseMaster # NoRev
    /\ proc[p].pc = "done" /\ proc[p].entry = "pull"
       => /\ nat[p].ret.text \in {"Already up to date", "Updated"}
             => repo.head = MainElseMaster /\ MainElseMaster # NoRev
          /\ nat[p].ret.text = "Could not find origin/main or origin/master"
             => MainElseMaster = NoRev
          /\ MainElseMaster = NoRev => Failed(nat[p].ret) \/ nat[p].ret.kind = "throw"

\* Both refs exist at different revisions and pull is about to reset to
\* origin/main.
C7_Witness ==
  \E p \in Procs :
    /\ nat[p].stage = "reset"
    /\ repo.tracking["main"] # NoRev /\ repo.tracking["master"] # NoRev
    /\ repo.tracking["main"] # repo.tracking["master"]
    /\ nat[p].target = repo.tracking["main"]

\* C8 - commitAndSync, syncRepo, syncToGit and performSync always resolve with
\* a result value: the promise never rejects, whatever the collaborators
\* return or throw.
C8_AlwaysResolves ==
  \A p \in Procs :
    proc[p].pc = "done"
      /\ proc[p].entry \in {"commitAndSync", "syncRepo", "syncToGit", "performSync"}
    => proc[p].result.kind = "value"

\* C9 - Abort on failure: once clone, pull or push has returned failure, the
\* call invokes no further primitive and its result is a failure; only the
\* first push of a commit-first call may be followed by the pull and the
\* retry.
C9_AbortOnFailure ==
  \A p \in Procs :
    proc[p].entry \in {"commitAndSync", "syncRepo", "syncToGit", "performSync", "handleSync"}
      /\ proc[p].failedAt \notin {"none", "stg_push1", "cas_push1"}
    => /\ ~InFlight(p)
       /\ proc[p].pc = "done" => ~ValueSuccess(proc[p])

\* The innermost repository root that contains the path, if any.
Innermost(parts, repos) ==
  LET hits == {i \in 0..Len(parts) : SubSeq(parts, 1, i) \in repos} IN
  IF hits = {} THEN Null
  ELSE Root(SubSeq(parts, 1, CHOOSE i \in hits : \A j \in hits : i >= j))

\* C10 - Nearest repository root: for every path and every placement of
\* repositories, nested ones included, both findGitRepoRoot implementations
\* return the innermost repository root that contains the path, and agree.
C10_NearestRoot ==
  rres.asked /\ ~rres.threw
  => /\ rres.gs = Innermost(rpath, rrepos)
     /\ rres.ops = Innermost(rpath, rrepos)
     /\ rres.gs = rres.ops

\* The revision pull takes from the remote as the call found it.
RemoteAtStart(pr) == PickRemoteOid(Fetched(pr.start.repo, pr.start.origin).tracking)

\* The call began, and has run undisturbed, with local HEAD and the remote at
\* the same revision and an uncommitted change in the working tree.
LocalEditScenario(pr) ==
  /\ pr.start.repo.cloned
  /\ pr.start.repo.head = pr.start.origin[pr.start.repo.branch]
  /\ pr.start.repo.head = RemoteAtStart(pr)
  /\ pr.start.repo.wt # TreeOf(commits, pr.start.repo.head)

\* C11 - Local edit, remote unchanged: a syncRepo call that starts with local
\* HEAD = remote = A and an uncommitted change, and that nothing interferes
\* with, returns success; afterwards local HEAD = remote branch = B, where B
\* is a new commit whose parent is A and whose tree holds the change, and the
\* change is staged.
C11_LocalEdit ==
  \A p \in Procs :
    proc[p].pc = "done" /\ proc[p].entry = "syncRepo" /\ LocalEditScenario(proc[p])
    => /\ ValueSuccess(proc[p])
       /\ repo.head # proc[p].start.repo.head
       /\ repo.head = origin[repo.branch]
       /\ commits[repo.head].parent = proc[p].start.repo.head
       /\ commits[repo.head].tree = proc[p].start.repo.wt
       /\ repo.index = proc[p].start.repo.wt /\ repo.wt = proc[p].start.repo.wt
       /\ proc[p].nPush = 1 /\ proc[p].nPull = 1

\* syncRepo has returned from the local-edit scenario with the new commit on
\* the remote branch.
C11_Witness ==
  \E p \in Procs :
    /\ proc[p].pc = "done" /\ proc[p].entry = "syncRepo" /\ LocalEditScenario(proc[p])
    /\ ValueSuccess(proc[p]) /\ origin[repo.branch] = repo.head
    /\ nat[p].ret.text = "Pushed successfully"

\* The call began, and has run undisturbed, with a clean working tree and the
\* remote at a revision other than local HEAD.
RemoteMovedScenario(pr) ==
  /\ pr.start.repo.cloned
  /\ StatusEntries(pr.start.repo, commits) = {}
  /\ RemoteAtStart(pr) \notin {NoRev, pr.start.repo.head}

\* C12 - Remote moved, no local edits: a pull that starts with local HEAD = A,
\* a clean working tree and the remote at C # A, and that nothing interferes
\* with, hard-resets to C and returns success with the message built from A
\* and C; afterwards HEAD = C, the index and the working tree are C's tree,
\* and the remote is where it was.
C12_Step ==
  \A p \in Procs :
    proc[p].entry = "pull" /\ proc[p].pc # "done" /\ proc'[p].pc = "done"
      /\ RemoteMovedScenario(proc'[p])
    => /\ nat[p].stage = "reset"
       /\ nat[p].orig = proc[p].start.repo.head /\ nat[p].target = RemoteAtStart(proc[p])
       /\ ValueSuccess(proc'[p]) /\ nat'[p].ret.text = "Updated"
       /\ repo'.head = RemoteAtStart(proc[p])
       /\ repo'.index = TreeOf(commits, repo'.head) /\ repo'.wt = TreeOf(commits, repo'.head)
       /\ origin' = proc[p].start.origin /\ commits' = commits

C12_RemoteMoved == [][C12_Step]_vars

\* pull has returned 'Updated' from the remote-moved scenario, to a revision
\* whose tree differs from the one local HEAD had.
C12_Witness ==
  \E p \in Procs :
    /\ proc[p].pc = "done" /\ proc[p].entry = "pull" /\ RemoteMovedScenario(proc[p])
    /\ nat[p].ret.text = "Updated" /\ repo.head = RemoteAtStart(proc[p])
    /\ TreeOf(commits, repo.head) # TreeOf(commits, proc[p].start.repo.head)

\* The failure kind C13 states for a push error text.
PushKindStated(words) ==
  IF "network" \in words \/ "connect" \in words THEN "no_network"
  ELSE IF "auth" \in words \/ "credential" \in words THEN "auth_failed"
  ELSE "unknown"

\* C13 - Push failure classification: when the final push of commitAndSync
\* returns failure, the reason of the result is no_network for an error text
\* that contains 'network' or 'connect', auth_failed for one that contains
\* 'auth' or 'credential', and unknown otherwise.
C13_PushClassification ==
  \A p \in Procs :
    proc[p].pc = "done" /\ proc[p].entry = "commitAndSync"
      /\ proc[p].failedAt = "cas_push2" /\ nat[p].ret.kind = "value"
    => /\ ValueFailure(proc[p])
       /\ proc[p].result.reason = PushKindStated(nat[p].ret.words)

\* C14 - Fetch failure classification: when the pull of commitAndSync returns
\* 'Fetch failed', the reason of the result is no_network for a failure of
\* the network layer and auth_failed for rejected credentials, the
\* authentication error of the single-use credential guard included.
C14_FetchClassification ==
  \A p \in Procs :
    proc[p].pc = "done" /\ proc[p].entry = "commitAndSync"
      /\ proc[p].failedAt = "cas_pull" /\ nat[p].fetchFailed # "none"
    => /\ ValueFailure(proc[p])
       /\ nat[p].fetchFailed = "network" => proc[p].result.reason = "no_network"
       /\ nat[p].fetchFailed = "auth" => proc[p].result.reason = "auth_failed"

\* C15 - Credential single-use guard: within one fetch or one push the
\* callback supplies the username and token at most once; every challenge
\* after the first of the same operation is answered GIT_EAUTH with no
\* credential; each pull and each push starts with an unused context, so the
\* first challenge of an operation is never answered GIT_EAUTH.
C15_Step ==
  /\ auth'.supplied <= 1
  /\ auth'.challenges > auth.challenges
     => /\ auth.challenges >= 1 => auth'.code = "GIT_EAUTH" /\ auth'.supplied = auth.supplied
        /\ auth.challenges = 0 => auth'.code # "GIT_EAUTH" /\ auth'.context.used
  /\ auth'.op # auth.op /\ auth'.op # "none"
     => ~auth'.context.used /\ auth'.supplied = 0 /\ auth'.challenges = 0

C15_SingleUse == [][C15_Step]_vars

\* The second challenge of a fetch has been answered GIT_EAUTH after the first
\* got the credential.
C15_Witness ==
  /\ auth.op = "fetch" /\ auth.challenges = 2 /\ auth.supplied = 1
  /\ auth.code = "GIT_EAUTH" /\ auth.context.used

\* The failures pull returns before its fetch has completed.
BeforeCompare == {"Failed to open repository", "Failed to get current HEAD",
                  "No remote found", "Failed to lookup remote", "Fetch failed"}

\* C16 - Compare short-circuit: when the fetch of a pull has completed and the
\* remote revision it picked equals local HEAD, pull returns success with
\* 'Already up to date' and does not go on to the uncommitted-changes check
\* or the reset; HEAD, the index and the working tree are left as they were,
\* with or without uncommitted changes.
C16_Step ==
  \A p \in Procs :
    /\ proc[p].pc \in PullLabels /\ nat[p].stage = "call" /\ nat'[p] # nat[p]
    /\ \/ nat'[p].stage = "reset"
       \/ nat'[p].ret.kind = "value" /\ nat'[p].ret.text \notin BeforeCompare
    /\ PickRemoteOid(repo'.tracking) = repo.head
    => /\ nat'[p].stage # "reset"
       /\ nat'[p].ret = Ok("Already up to date")
       /\ repo'.head = repo.head /\ repo'.index = repo.index /\ repo'.wt = repo.wt

C16_ShortCircuit == [][C16_Step]_vars

\* pull has returned 'Already up to date' on a working tree with uncommitted
\* changes.
C16_Witness ==
  \E p \in Procs :
    /\ proc[p].pc = "done" /\ proc[p].entry = "pull"
    /\ nat[p].ret.text = "Already up to date"
    /\ StatusEntries(repo, commits) # {} /\ repo.head = PickRemoteOid(repo.tracking)

\* The complete sequences of log messages C17 allows, in step order.
LogOrders ==
  LET after == {<<"Already up to date">>, <<"Updated">>}
  IN {<<"Fetching and updating from remote...", "Pull failed">>}
     \cup {<<"Fetching and updating from remote...">> \o a \o t :
             a \in after,
             t \in {<<"Push failed">>, <<"Sync completed successfully">>,
                    <<"Pushed local changes", "Sync completed successfully">>}}

IsPrefix(a, b) == Len(a) <= Len(b) /\ a = SubSeq(b, 1, Len(a))

\* The log of one syncRepo call against its steps: the messages are a prefix
\* of an allowed sequence; the first precedes the pull, the pull's outcome
\* follows the pull's return, a push outcome is logged only after a pull
\* that succeeded and a push that returned; a call that succeeds has logged
\* 'Sync completed successfully' last.
LogInOrder(pr) ==
  /\ \E full \in LogOrders : IsPrefix(pr.onLog, full)
  /\ pr.nPull > 0 => Len(pr.onLog) >= 1
  /\ Len(pr.onLog) >= 2 => pr.nPull = 1 /\ (pr.pullOk <=> pr.onLog[2] # "Pull failed")
  /\ Len(pr.onLog) >= 3 => pr.pullOk /\ pr.nPush = 1 /\ pr.pc = "done"
  /\ pr.pc = "sr_push" => Len(pr.onLog) = 2
  /\ pr.pc = "done" /\ ValueSuccess(pr)
     => pr.onLog[Len(pr.onLog)] = "Sync completed successfully"
  /\ pr.pc = "done" /\ pr.failedAt \in {"sr_pull", "sr_push"}
     => pr.onLog[Len(pr.onLog)] \in {"Pull failed", "Push failed"}

\* C17 - Log callback ordering: in syncRepo every onLog invocation happens
\* before the result is returned and in step order ('Fetching and updating
\* from remote...', the pull outcome, the push outcome only after a pull that
\* succeeded, 'Sync completed successfully' last); once the call has
\* returned, its log does not change.
C17_Step ==
  \A p \in Procs :
    /\ proc'[p].entry = "syncRepo" => LogInOrder(proc'[p])
    /\ proc[p].entry = "syncRepo" /\ proc[p].pc = "done"
       => proc'[p].onLog = proc[p].onLog \/ proc'[p].pc = "idle"
    /\ proc[p].entry = "syncRepo" /\ proc'[p].entry = "syncRepo"
       => IsPrefix(proc[p].onLog, proc'[p].onLog)

C17_LogOrder == [][C17_Step]_vars

\* syncRepo has returned success after a push that committed, with its four
\* messages logged.
C17_Witness ==
  \E p \in Procs :
    /\ proc[p].pc = "done" /\ proc[p].entry = "syncRepo" /\ ValueSuccess(proc[p])
    /\ proc[p].onLog = <<"Fetching and updating from remote...", "Already up to date",
                         "Pushed local changes", "Sync completed successfully">>

\* C20 - The sync log is append-only: during one performSync call every step
\* leaves the entries logged so far in place, unchanged and in order, and
\* adds the entries of the step after them; the logs of the result are the
\* entries appended, each an entry of the step that appended it.
C20_Step ==
  \A p \in Procs :
    proc[p].entry = "performSync" /\ proc'[p].entry = "performSync"
    => /\ IsPrefix(proc[p].log, proc'[p].log)
       /\ Len(proc'[p].log) <= Len(proc[p].log) + 2
       /\ proc[p].pc = "ps_isrepo" => Len(proc[p].log) = 0
       /\ proc[p].pc = "ps_isrepo" /\ proc'[p].pc \in {"ps_clone", "ps_pull"}
          => Len(proc'[p].log) = 1
       /\ proc[p].pc \in {"ps_clone", "ps_pull"} /\ nat'[p].ret.kind = "value"
          => Len(proc'[p].log) = 2
       /\ proc[p].pc = "ps_push" /\ nat'[p].ret.kind = "value"
          => Len(proc'[p].log) = IF nat'[p].ret.text = "Pushed successfully" THEN 4 ELSE 3

C20_AppendOnly == [][C20_Step]_vars

\* performSync has returned with two consecutive 'info' entries (the clone)
\* in its log.
C20_Witness ==
  \E p \in Procs :
    /\ proc[p].pc = "done" /\ proc[p].entry = "performSync" /\ Len(proc[p].log) = 2
    /\ proc[p].log[1].operation = "info" /\ proc[p].log[2].operation = "info"
    /\ proc[p].log[1].success = "undefined" /\ proc[p].log[2].success = "true"

\* No directory below the base directory, down to the path itself, is a
\* repository root.
NoRootBelowBase(parts, repos) == \A i \in 1..Len(parts) : SubSeq(parts, 1, i) \notin repos

\* C19 - The tree root is a candidate: when the base directory is a
\* repository root and no deeper ancestor of the path is, both
\* findGitRepoRoot implementations return the base directory, for every
\* path.
C19_RootIsCandidate ==
  rres.asked /\ ~rres.threw /\ <<>> \in rrepos /\ NoRootBelowBase(rpath, rrepos)
  => rres.gs = Root(<<>>) /\ rres.ops = Root(<<>>)

\* No ancestor of the path last resolved, the base directory included, is a
\* repository root.
Untracked == rres.asked /\ Innermost(rpath, rrepos) = Null

\* C18 - Untracked paths are not an error: when no ancestor of the path is a
\* repository root, both findGitRepoRoot implementations answer null, and
\* commitAndSync and the git file operations (whose file operation did not
\* throw) return success without invoking push, pull or clone.
C18_UntrackedIsSuccess ==
  Untracked
  => /\ rres.gs = Null /\ rres.ops = Null
     /\ \A p \in Procs :
          proc[p].pc = "done" /\ proc[p].entry \in {"commitAndSync", "withGit"}
            /\ proc[p].failedAt # "file_op"
          => /\ ValueSuccess(proc[p])
             /\ proc[p].nPush = 0 /\ proc[p].nPull = 0 /\ nat[p].ret = NoRet
             /\ proc[p].entry = "commitAndSync" => proc[p].result.reason = "success"

\* commitAndSync has returned for a path two levels down, beside a cloned
\* repository that does not contain it.
C18_Witness ==
  \E p \in Procs :
    /\ proc[p].pc = "done" /\ proc[p].entry = "commitAndSync" /\ Untracked
    /\ rrepos # {} /\ Len(rpath) >= 2 /\ ValueSuccess(proc[p])

\* The failures push returns before it starts git_remote_push.
BeforeRemotePush == {"Failed to open repository", "Failed to stage files", "Failed to commit",
                     "Failed to lookup remote", "Failed to get HEAD"}

\* C21 - Nothing staged is success: a push that finds no change after staging
\* creates no commit and leaves HEAD where it was, still runs the remote push
\* (which moves the remote branch to HEAD, or fails when HEAD does not contain
\* the remote branch), and returns success with 'Nothing to push' when the
\* remote push succeeds; a commit is created only when the status after
\* staging is not empty, and it is the commit of the staged tree on HEAD.
C21_Step ==
  \A p \in Procs :
    proc[p].pc \in PushLabels /\ proc'[p].pc = "done" /\ nat'[p].ret.kind = "value"
    => LET staged == [repo EXCEPT !.index = repo.wt]
           ret == nat'[p].ret
       IN
       /\ commits' # commits
          => /\ StatusEntries(staged, commits) # {}
             /\ commits' = Append(commits, [parent |-> repo.head, tree |-> repo.wt])
             /\ repo'.head = Len(commits')
       /\ StatusEntries(staged, commits) = {}
          => /\ commits' = commits /\ repo'.head = repo.head
             /\ ret.success
                => /\ ret.text = "Nothing to push"
                   /\ origin'[repo.branch] \in {repo.head, origin[repo.branch]}
                   /\ ~PushRefused(repo, origin, commits)
             /\ ret.text \notin BeforeRemotePush /\ PushRefused(repo, origin, commits)
                => ~ret.success /\ ret.text = "Push failed" /\ origin' = origin
       /\ ret.success /\ ret.text = "Nothing to push" => commits' = commits

C21_NothingStaged == [][C21_Step]_vars

\* A push that nothing interfered with has returned 'Nothing to push' from a
\* clean working tree and has moved the remote branch to the commit an
\* earlier push had left unpushed.
C21_Witness ==
  \E p \in Procs :
    /\ proc[p].pc = "done" /\ proc[p].entry = "push" /\ ValueSuccess(proc[p])
    /\ nat[p].ret.text = "Nothing to push"
    /\ proc[p].start.repo.cloned /\ StatusEntries(proc[p].start.repo, commits) = {}
    /\ repo.head = proc[p].start.repo.head
    /\ origin[repo.branch] = repo.head
    /\ proc[p].start.origin[repo.branch] # repo.head

RECURSIVE HoldsContent(_, _, _)
\* The revision, or one of the revisions it was built on, has content c.
HoldsContent(cs, r, c) ==
  IF r = NoRev THEN FALSE
  ELSE IF cs[r].tree = c THEN TRUE
  ELSE HoldsContent(cs, cs[r].parent, c)

\* C22 - A commit-first sync never reports success while losing the edit it
\* was called for: when commitAndSync or syncToGit has run its primitives
\* with nothing interfering and returns success, the content that was in the
\* working tree when the call began is held by the revision the remote
\* branch points to at return, also after a first push that was refused
\* because the remote had diverged, a pull and a second push.
C22_EditNotLost ==
  \A p \in Procs :
    proc[p].pc = "done" /\ proc[p].entry \in CommitFirst /\ ValueSuccess(proc[p])
      /\ proc[p].start.repo.cloned /\ proc[p].nPush > 0
    => HoldsContent(commits, origin[repo.branch], proc[p].start.repo.wt)

\* The call began, and has run undisturbed, with a clean working tree and
\* local HEAD at a commit that no branch of the remote contains.
UnpushedScenario(pr) ==
  /\ pr.start.repo.cloned
  /\ StatusEntries(pr.start.repo, commits) = {}
  /\ \A b \in Branches : ~IsAncestor(commits, pr.start.repo.head, pr.start.origin[b])

\* C23 - Pull never discards unpushed local commits: when pull or syncRepo
\* starts on a clean working tree with local HEAD at a commit the remote does
\* not contain and returns success, that commit is still reachable from
\* local HEAD or from a branch of the remote.
C23_UnpushedKept ==
  \A p \in Procs :
    proc[p].pc = "done" /\ proc[p].entry \in {"pull", "syncRepo"}
      /\ ValueSuccess(proc[p]) /\ UnpushedScenario(proc[p])
    => \/ IsAncestor(commits, proc[p].start.repo.head, repo.head)
       \/ \E b \in Branches : IsAncestor(commits, proc[p].start.repo.head, origin[b])

\* A file of the working tree has been written since the pull of caller p
\* found no uncommitted change: the pull is between its check and its reset,
\* the working tree was clean when it checked and is not now.
WrittenSinceCheck(p) ==
  nat[p].stage = "reset" /\ ~nat[p].guard /\ repo.wt # repo.index

\* C24 - No interleaving of a file write with a pull in flight loses the
\* write silently: when a file is written after pull has checked for
\* uncommitted changes and before its hard reset, the written content is
\* still in the working tree when pull returns, or pull returns a failure.
C24_Step ==
  \A p \in Procs :
    WrittenSinceCheck(p) /\ proc[p].entry = "pull" /\ proc'[p].pc = "done"
    => repo'.wt = repo.wt \/ ~ValueSuccess(proc'[p])

C24_WriteNotLost == [][C24_Step]_vars

\* C25 - Commit-first step order in syncToGit: the first push is the first
\* primitive invoked; pull is invoked only after a first push that failed;
\* the second push only after that pull succeeded; after a first push that
\* succeeds neither pull nor a second push is invoked; and the call returns
\* success exactly when the last primitive invoked returned success.
C25_Step ==
  \A p \in Procs :
    proc'[p].entry = "syncToGit" /\ proc'[p].pc # proc[p].pc
    => /\ proc'[p].pc = "stg_push1"
          => proc[p].pc = "idle" /\ proc'[p].nPush = 1 /\ proc'[p].nPull = 0
       /\ proc'[p].pc = "stg_pull"
          => /\ proc[p].pc = "stg_push1" /\ proc'[p].failedAt = "stg_push1"
             /\ proc'[p].pushFailed = 1 /\ proc'[p].nPush = 1 /\ proc'[p].nPull = 1
       /\ proc'[p].pc = "stg_push2"
          => /\ proc[p].pc = "stg_pull" /\ proc'[p].pullOk
             /\ proc'[p].nPush = 2 /\ proc'[p].nPull = 1
       /\ proc[p].pc = "stg_push1" /\ nat'[p].ret.kind = "value" /\ nat'[p].ret.success
          => proc'[p].pc = "done" /\ proc'[p].nPush = 1 /\ proc'[p].nPull = 0
       /\ proc'[p].pc = "done"
          => /\ ValueSuccess(proc'[p])
                <=> nat'[p].ret.kind = "value" /\ nat'[p].ret.success
             /\ proc[p].pc \in {"idle", "stg_push1", "stg_pull", "stg_push2"}
             /\ proc[p].pc = "idle" => proc'[p].nPush = 0 /\ proc'[p].nPull = 0

C26_Step ==
  \A p \in Procs :
    proc[p].pc \in PullLabels /\ nat[p].stage = "call" /\ proc'[p].failedAt = proc[p].pc
    => /\ repo'.head = repo.head /\ repo'.branch = repo.branch
       /\ repo'.wt = repo.wt /\ repo'.index = repo.index /\ repo'.cloned = repo.cloned
       /\ commits' = commits /\ origin' = origin
       /\ nat'[p].stage # "reset"

C26_FailedPullFrame == [][C26_Step]_vars

\* pull has refused to reset over uncommitted changes after its fetch brought
\* a remote revision other than HEAD.
C26_Witness ==
  \E p \in Procs :
    /\ proc[p].pc = "done" /\ proc[p].entry = "pull" /\ proc[p].failedAt = "nat_pull"
    /\ nat[p].ret.text = "You have local uncommitted changes. Commit or stash them first."
    /\ repo.wt # repo.index
    /\ PickRemoteOid(repo.tracking) \notin {NoRev, repo.head}
    /\ repo.tracking[repo.branch] = origin[repo.branch]

\* The remote branch pull takes its revision from: main when origin/main
\* exists, else master when origin/master exists.
PullBranch(tracking) ==
  IF tracking["main"] # NoRev THEN "main"
  ELSE IF tracking["master"] # NoRev THEN "master" ELSE "none"

\* C27 - Pull and push act on the same remote branch: in a sync call whose
\* pull succeeded and whose push after it ran the remote push successfully,
\* the branch pull compared with and reset to (origin/main, else
\* origin/master) is the branch push updated (the one local HEAD is on).
C27_SameBranch ==
  \A p \in Procs :
    proc[p].pc = "done" /\ proc[p].pullOk /\ proc[p].nPush >= 1
      /\ proc[p].entry \in {"syncRepo", "commitAndSync", "syncToGit", "performSync"}
      /\ nat[p].ret.text \in {"Pushed successfully", "Nothing to push"}
    => PullBranch(repo.tracking) = repo.branch

C29_Step ==
  \A p \in Procs :
    proc'[p].entry = "performSync" /\ proc'[p].pc # proc[p].pc
    => /\ proc'[p].pc = "ps_isrepo" => proc[p].pc = "idle"
       /\ proc[p].pc = "ps_isrepo" /\ proc'[p].result.kind = "pending"
          => proc'[p].pc = IF repo.cloned THEN "ps_pull" ELSE "ps_clone"
       /\ proc'[p].pc = "ps_clone" => proc[p].pc = "ps_isrepo" /\ ~repo.cloned
       /\ proc'[p].pc = "ps_pull" => proc[p].pc = "ps_isrepo" /\ repo.cloned
       /\ proc'[p].pc = "ps_push" => proc[p].pc = "ps_pull"
       /\ proc[p].pc = "ps_clone"
          => /\ proc'[p].pc = "done" /\ proc'[p].nPull = 0 /\ proc'[p].nPush = 0
             /\ nat'[p].ret.kind = "value"
                => /\ proc'[p].result.kind = "value"
                   /\ proc'[p].result.success = nat'[p].ret.success
             /\ nat'[p].ret.kind = "throw" => ~ValueSuccess(proc'[p])

C29_CloneInsteadOfSync == [][C29_Step]_vars

\* performSync has returned success from its clone of a repository that was
\* absent, without a pull or a push.
C29_Witness ==
  \E p \in Procs :
    /\ proc[p].pc = "done" /\ proc[p].entry = "performSync" /\ ValueSuccess(proc[p])
    /\ nat[p].ret.text = "Repository cloned successfully" /\ repo.cloned
    /\ proc[p].nPull = 0 /\ proc[p].nPush = 0
    /\ Len(proc[p].log) = 2

\* The groups of words in the order C30 gives them, each with its reason.
Groups == <<[words |-> {"network", "connect"}, reason |-> "no_network"],
            [words |-> {"conflict", "merge"}, reason |-> "conflict"],
            [words |-> {"auth", "credential"}, reason |-> "auth_failed"]>>

\* The groups an error text matches.
Matching(words) == {g \in 1..Len(Groups) : Groups[g].words \cap words # {}}

\* C30 - Pull-failure classification in commitAndSync is total and has a
\* fixed precedence: whatever the error text of the failed pull, the result
\* carries one of the four reasons; a text that matches several groups gets
\* the reason of the first of network/connect, conflict/merge and
\* auth/credential it matches; a text that matches none gets unknown.
C30_PullClassification ==
  \A p \in Procs :
    proc[p].pc = "done" /\ proc[p].entry = "commitAndSync"
      /\ proc[p].failedAt = "cas_pull" /\ nat[p].ret.kind = "value"
    => LET m == Matching(nat[p].ret.words) IN
       /\ ValueFailure(proc[p])
       /\ proc[p].result.reason \in {"no_network", "conflict", "auth_failed", "unknown"}
       /\ m = {} <=> proc[p].result.reason = "unknown"
       /\ \A g \in m : (\A h \in m : g <= h) => proc[p].result.reason = Groups[g].reason

\* commitAndSync has returned no_network for a failed pull whose error text
\* holds both 'connect' and 'auth'.
C30_Witness ==
  \E p \in Procs :
    /\ proc[p].pc = "done" /\ proc[p].entry = "commitAndSync"
    /\ proc[p].failedAt = "cas_pull"
    /\ {"connect", "auth"} \subseteq nat[p].ret.words
    /\ proc[p].result.reason = "no_network"

\* C31 - performSync's result agrees with its log: when performSync returns,
\* its logs are not empty; the result's success is false exactly when the
\* last entry has operation 'error' and success false; on success the last
\* entry is an 'info' entry with success true.
C31_ResultAgreesWithLog ==
  \A p \in Procs :
    proc[p].pc = "done" /\ proc[p].entry = "performSync" /\ proc[p].result.kind = "value"
    => /\ Len(proc[p].log) >= 1
       /\ LET lastEntry == proc[p].log[Len(proc[p].log)] IN
          /\ ~proc[p].result.success
             <=> lastEntry.operation = "error" /\ lastEntry.success = "false"
          /\ proc[p].result.success
             => lastEntry.operation = "info" /\ lastEntry.success = "true"

\* performSync has returned failure from a push that failed after a pull that
\* succeeded, with the fetch, the merge and the error logged.
C31_Witness ==
  \E p \in Procs :
    /\ proc[p].pc = "done" /\ proc[p].entry = "performSync" /\ ValueFailure(proc[p])
    /\ proc[p].failedAt = "ps_push" /\ Len(proc[p].log) = 3
    /\ proc[p].log[3].operation = "error" /\ proc[p].log[3].message = "Push failed"
    /\ proc[p].log[3].success = "false"
    /\ proc[p].log[2].operation = "merge"

\* A synced file that was on both sides, with different contents, when
\* syncWithGitHub was called.
DifferedAtStart(f) ==
  /\ github.start.local[f] # Absent /\ github.start.remote[f] # Absent
  /\ github.start.local[f] # base64Decode(github.start.remote[f])

\* C32 - In the REST-based syncWithGitHub the remote wins: pull runs before
\* push and push runs only if pull succeeded; and once syncWithGitHub has
\* returned success, every top-level .md/.txt file that was on both sides
\* with different contents holds locally what the remote held when the call
\* began, is unchanged on the remote, and is not counted in filesUploaded.
C32_RemoteWins ==
  /\ "push" \in {github.calls[i] : i \in 1..Len(github.calls)}
     => github.calls = <<"pull", "push">> /\ github.pullResult.success
  /\ github.pc = "done" /\ github.result.success
     => \A f \in SyncedFiles :
          DifferedAtStart(f)
          => /\ github.local[f] = base64Decode(github.start.remote[f])
             /\ github.remote[f] = github.start.remote[f]
             /\ f \notin github.uploaded
             /\ github.result.filesUploaded = Cardinality(github.uploaded)

\* C33 - Undo history invariant: after any sequence of recordChange, undo,
\* redo and undoToEntry on one file, -1 <= currentIndex <= entries.length - 1
\* and entries.length <= 100; undo returns null exactly when currentIndex is
\* -1 and redo returns null exactly when currentIndex = entries.length - 1,
\* and a null-returning undo or redo leaves the history unchanged.
C33_HistoryInvariant ==
  /\ -1 <= history.currentIndex
  /\ history.currentIndex <= Len(history.entries) - 1
  /\ Len(history.entries) <= HistoryLimit
  /\ histCall.op = "undo"
     => (histCall.ret = "null" <=> histCall.before.currentIndex = -1)
  /\ histCall.op = "redo"
     => (histCall.ret = "null"
         <=> histCall.before.currentIndex = Len(histCall.before.entries) - 1)
  /\ histCall.op \in {"undo", "redo"} /\ histCall.ret = "null"
     => history = histCall.before

\* A change was recorded on a full history whose last entry was current: the
\* oldest entry went, the new one is last and current.
C33_Witness ==
  /\ histCall.op = "recordChange" /\ histCall.ret = "void"
  /\ Len(histCall.before.entries) = HistoryLimit
  /\ histCall.before.currentIndex = HistoryLimit - 1
  /\ Len(history.entries) = HistoryLimit
  /\ history.entries[HistoryLimit].id = histCall.clock
  /\ history.entries[1] = histCall.before.entries[2]
  /\ histCall.prev.op = "redo" /\ histCall.prev.ret = "null"

\* The last call was an undo that returned a content.
Undone == histCall.op = "undo" /\ histCall.ret \notin {"null", "rejected"}

\* The entry that undo took back.
UndoneEntry == histCall.before.entries[histCall.before.currentIndex + 1]

\* A redo that returns follows the undo; a recordChange of differing
\* contents that returns follows the undo.
C34_Step ==
  /\ Undone /\ histCall'.op = "redo" /\ histCall'.ret # "rejected"
     => /\ history' = histCall.before
        /\ histCall.ret = UndoneEntry.previousContent
        /\ histCall'.ret = UndoneEntry.newContent
  /\ Undone /\ histCall'.op = "recordChange" /\ histCall'.ret = "void"
     /\ histCall'.clock # histCall.clock
     => /\ Len(history'.entries) = history.currentIndex + 2
        /\ SubSeq(history'.entries, 1, history.currentIndex + 1)
             = SubSeq(history.entries, 1, history.currentIndex + 1)
        /\ history'.entries[Len(history'.entries)].id = histCall'.clock
        /\ history'.currentIndex = Len(history'.entries) - 1

\* C34 - Undo and redo are inverse on the history: for any history with
\* currentIndex >= 0, undo followed by redo, with no recordChange in between,
\* restores currentIndex and the entries to their prior values, undo returns
\* the previousContent and the following redo the newContent of the same
\* entry; and a recordChange with differing content made after an undo
\* discards every entry beyond currentIndex, so that redo is unavailable.
C34_UndoRedoInverse == [][C34_Step]_vars

\* A redo has followed an undo in a history of several entries: both
\* returned a content, and the entry taken back is current again.
C34_Witness ==
  /\ histCall.op = "redo" /\ histCall.ret \in Contents
  /\ histCall.prev.op = "undo" /\ histCall.prev.ret \in Contents
  /\ histCall.ret # histCall.prev.ret
  /\ Len(history.entries) >= 2
  /\ history.entries = histCall.before.entries
  /\ history.currentIndex = histCall.before.currentIndex + 1

====
